---- MODULE Spec2Model ----
(***************************************************************************)
(* Model of pkg/k8s factory functions (src/unnamed/part_000): the per-kind *)
(* Convert* normalizers, the ObjTo* casts and the Equal* comparators.      *)
(*                                                                         *)
(* Go values are represented as follows.                                   *)
(*   map[string]string : [nil : BOOLEAN, kv : set of <<key, value>>]       *)
(*   slice             : [nil : BOOLEAN, items : sequence]                 *)
(*   pointer           : a heap address (Nat), 0 is the nil pointer        *)
(*   *metav1.Time      : [nil : BOOLEAN, t : instant]                      *)
(***************************************************************************)
EXTENDS Integers, Sequences, FiniteSets, TLC

VARIABLES
    eqKind,     \* comparator under test: "Node", "Pod" or "Service"
    eqA, eqB,   \* the two operands handed to the comparator
    eqPc,       \* "start" before the call, "done" after it returned
    eqRet,      \* the value the comparator returned
    cnpObjs,    \* the SlimCNP objects of the cache: address -> object
    cnpMaps,    \* the annotation maps: map address -> set of <<key, value>>
    cnp1, cnp2, \* the two pointers handed to EqualV2CNP
    cnpPc,      \* the statement of EqualV2CNP about to run
    cnpLocals,  \* lastAppliedCfgAnnotation1/2, ok1/2
    cnpRet,     \* the value EqualV2CNP returns
    cnpOrig,    \* the annotation maps as they were when the call started
    heap,       \* the raw objects: address -> object
    rawEvent,   \* the interface{} value the watch layer delivered
    calls,      \* the converter calls made on rawEvent, oldest first
    castPc,     \* "ready" where ObjTo* casts are applied, "idle" otherwise
    castLast,   \* the last ObjTo* call: argument, result, log entries
    readerPc,   \* how the reader of the cached annotations runs, or "idle"
    readerObs   \* what the reader last observed, and at which statement

eqVars == <<eqKind, eqA, eqB, eqPc, eqRet>>
cnpVars == <<cnpObjs, cnpMaps, cnp1, cnp2, cnpPc, cnpLocals, cnpRet, cnpOrig>>
normVars == <<heap, rawEvent, calls>>
castVars == <<castPc, castLast>>
readerVars == <<readerPc, readerObs>>

(***************************************************************************)
(* Bounds of the model.                                                    *)
(***************************************************************************)
MaxTaints == 2
MaxContainers == 2
MaxMounts == 2
MaxCalls == 2

SeqsUpTo(S, n) == UNION {[1..k -> S] : k \in 0..n}

(***************************************************************************)
(* Go maps and slices.                                                     *)
(***************************************************************************)
NilMap == [nil |-> TRUE, kv |-> {}]
MkMap(kv) == [nil |-> FALSE, kv |-> kv]
MapHas(m, k) == \E p \in m.kv : p[1] = k
\* m[k]: the value under k, or the zero value "" when k is absent or m is nil.
MapIndex(m, k) == IF MapHas(m, k) THEN (CHOOSE p \in m.kv : p[1] = k)[2] ELSE ""
\* delete(m, k): no-op on a nil map or a missing key.
MapDelete(m, k) == [m EXCEPT !.kv = {p \in m.kv : p[1] # k}]
\* m[k] = v on a non-nil map.
MapStore(m, k, v) == [m EXCEPT !.kv = {p \in m.kv : p[1] # k} \cup {<<k, v>>}]

NilSlice == [nil |-> TRUE, items |-> <<>>]
MkSlice(s) == [nil |-> FALSE, items |-> s]

NilTime == [nil |-> TRUE, t |-> 0]
MkTime(t) == [nil |-> FALSE, t |-> t]

\* comparator.MapStringEquals: both maps hold the same key/value pairs.
MapStringEquals(m1, m2) == m1.kv = m2.kv

(***************************************************************************)
(* Node comparator.                                                        *)
(***************************************************************************)
CiliumHostIP == "io.cilium.network.ipv4-cilium-host"
CiliumHostIPv6 == "io.cilium.network.ipv6-cilium-host"
V4HealthName == "io.cilium.network.ipv4-health-ip"
V6HealthName == "io.cilium.network.ipv6-health-ip"
ProxyVisibility == "io.cilium.proxy-visibility"
OtherAnnotation == "example.com/unrelated"

annotationsWeCareAbout == <<CiliumHostIP, CiliumHostIPv6, V4HealthName, V6HealthName>>

\* v1.Taint.MatchTaint: same key and same effect.
MatchTaint(taint1, taint2) == taint1.Key = taint2.Key /\ taint1.Effect = taint2.Effect

\* (*metav1.Time).Equal: nil-safe comparison of the two instants.
TimeEqual(t, u) ==
    IF t.nil /\ u.nil THEN TRUE
    ELSE IF ~t.nil /\ ~u.nil THEN t.t = u.t
    ELSE FALSE

AnnotationsEqual(relevantAnnotations, anno1, anno2) ==
    \A i \in 1..Len(relevantAnnotations) :
        MapIndex(anno1, relevantAnnotations[i]) = MapIndex(anno2, relevantAnnotations[i])

\* Matches every taint of one node against any taint of the other, whatever
\* its index.
EqualV1NodeAnyIndex(node1, node2) ==
    /\ node1.ObjectMeta.Name = node2.ObjectMeta.Name
    /\ AnnotationsEqual(annotationsWeCareAbout,
                        node1.ObjectMeta.Annotations, node2.ObjectMeta.Annotations)
    /\ Len(node1.SpecTaints.items) = Len(node2.SpecTaints.items)
    /\ \A i \in 1..Len(node2.SpecTaints.items) :
          \E j \in 1..Len(node1.SpecTaints.items) :
             LET taint2 == node2.SpecTaints.items[i]
                 taint1 == node1.SpecTaints.items[j]
             IN  /\ MatchTaint(taint1, taint2)
                 /\ taint1.Value = taint2.Value
                 /\ TimeEqual(taint1.TimeAdded, taint2.TimeAdded)

EqualV1Node(node1, node2) ==
    IF node1.ObjectMeta.Name # node2.ObjectMeta.Name THEN FALSE
    ELSE IF \E i \in 1..Len(annotationsWeCareAbout) :
                MapIndex(node1.ObjectMeta.Annotations, annotationsWeCareAbout[i])
                    # MapIndex(node2.ObjectMeta.Annotations, annotationsWeCareAbout[i])
         THEN FALSE
    ELSE IF Len(node1.SpecTaints.items) # Len(node2.SpecTaints.items) THEN FALSE
    ELSE \A i \in 1..Len(node2.SpecTaints.items) :
            LET taint2 == node2.SpecTaints.items[i]
                taint1 == node1.SpecTaints.items[i]
            IN  /\ MatchTaint(taint1, taint2)
                /\ taint1.Value = taint2.Value
                /\ TimeEqual(taint1.TimeAdded, taint2.TimeAdded)

(***************************************************************************)
(* Inputs of the Node comparator.                                          *)
(***************************************************************************)
ZeroTypeMeta == [Kind |-> "", APIVersion |-> ""]
ZeroObjectMeta == [Name |-> "", Namespace |-> "", Labels |-> NilMap, Annotations |-> NilMap]
MkMeta(name, ns, labels, annos) ==
    [Name |-> name, Namespace |-> ns, Labels |-> labels, Annotations |-> annos]

MkTaint(k, v, e, t) == [Key |-> k, Value |-> v, Effect |-> e, TimeAdded |-> t]
Taint0 == MkTaint("a", "1", "NoSchedule", MkTime(0))
TaintSamples ==
    { Taint0,
      MkTaint("b", "2", "NoSchedule", MkTime(1)),
      MkTaint("a", "1", "NoExecute", MkTime(0)),
      MkTaint("a", "2", "NoSchedule", MkTime(0)),
      MkTaint("a", "1", "NoSchedule", MkTime(1)),
      MkTaint("a", "1", "NoSchedule", NilTime) }

NodeAnnotationSamples ==
    { NilMap, MkMap({}), MkMap({<<OtherAnnotation, "x">>}) }
    \cup { MkMap({<<annotationsWeCareAbout[i], v>>}) : i \in 1..4, v \in {"", "x"} }

MkSlimNode(name, annos, taints) ==
    [ TypeMeta |-> [Kind |-> "Node", APIVersion |-> "v1"],
      ObjectMeta |-> MkMeta(name, "", NilMap, annos),
      StatusAddresses |-> NilSlice,
      SpecPodCIDR |-> "",
      SpecPodCIDRs |-> NilSlice,
      SpecTaints |-> taints ]

NodeSamples ==
    { MkSlimNode("n1", MkMap({<<CiliumHostIP, "x">>}), MkSlice(ts)) :
        ts \in SeqsUpTo(TaintSamples, MaxTaints) }
    \cup { MkSlimNode("n1", MkMap({<<CiliumHostIP, "x">>}), NilSlice) }
    \cup { MkSlimNode(n, a, MkSlice(<<Taint0>>)) :
        n \in {"n1", "n2"}, a \in NodeAnnotationSamples }
    \cup { [MkSlimNode("n1", MkMap({<<CiliumHostIP, "x">>}), MkSlice(<<Taint0>>))
               EXCEPT !.ObjectMeta.Labels = MkMap({<<"zone", "a">>})],
           [MkSlimNode("n1", MkMap({<<CiliumHostIP, "x">>}), MkSlice(<<Taint0>>))
               EXCEPT !.StatusAddresses = MkSlice(<<"192.168.0.1">>)],
           [MkSlimNode("n1", MkMap({<<CiliumHostIP, "x">>}), MkSlice(<<Taint0>>))
               EXCEPT !.SpecPodCIDR = "10.1.0.0/24"],
           MkSlimNode("n1", MkMap({<<CiliumHostIP, "x">>, <<OtherAnnotation, "x">>}),
                      MkSlice(<<Taint0>>)) }

(***************************************************************************)
(* Pod comparator.                                                         *)
(***************************************************************************)
EqualV1PodContainers(c1, c2) ==
    IF c1.Name # c2.Name \/ c1.Image # c2.Image THEN FALSE
    ELSE IF Len(c1.VolumeMounts.items) # Len(c2.VolumeMounts.items) THEN FALSE
    ELSE \A i \in 1..Len(c1.VolumeMounts.items) :
            c1.VolumeMounts.items[i].MountPath = c2.VolumeMounts.items[i].MountPath

\* Drops the nil check of EqualPodIPs.
EqualPodIPsNoNilCheck(a, b) ==
    /\ Len(a.items) = Len(b.items)
    /\ \A i \in 1..Len(a.items) : a.items[i] = b.items[i]

EqualPodIPs(a, b) ==
    IF a.nil # b.nil THEN FALSE
    ELSE IF Len(a.items) # Len(b.items) THEN FALSE
    ELSE \A i \in 1..Len(a.items) : a.items[i] = b.items[i]

EqualV1Pod(pod1, pod2) ==
    IF \/ pod1.Status.PodIP # pod2.Status.PodIP
       \/ pod1.Status.HostIP # pod2.Status.HostIP
       \/ pod1.Spec.ServiceAccountName # pod2.Spec.ServiceAccountName
       \/ pod1.Spec.HostNetwork # pod2.Spec.HostNetwork
    THEN FALSE
    ELSE IF ~EqualPodIPs(pod1.Status.PodIPs, pod2.Status.PodIPs) THEN FALSE
    ELSE IF ~AnnotationsEqual(<<ProxyVisibility>>,
                              pod1.ObjectMeta.Annotations, pod2.ObjectMeta.Annotations)
         THEN FALSE
    ELSE IF ~MapStringEquals(pod1.ObjectMeta.Labels, pod2.ObjectMeta.Labels) THEN FALSE
    ELSE IF Len(pod1.Spec.Containers.items) # Len(pod2.Spec.Containers.items) THEN FALSE
    ELSE \A i \in 1..Len(pod1.Spec.Containers.items) :
            EqualV1PodContainers(pod1.Spec.Containers.items[i], pod2.Spec.Containers.items[i])

(***************************************************************************)
(* Inputs of the Pod comparator: a base pod and pods that differ from it   *)
(* in one field.                                                           *)
(***************************************************************************)
MkMount(path) == [Name |-> "vol", MountPath |-> path]
MkContainer(name, image, mounts) ==
    [Name |-> name, Image |-> image, VolumeMounts |-> mounts, Env |-> ""]
MountLists == { MkSlice(s) : s \in SeqsUpTo({MkMount("/a"), MkMount("/b")}, MaxMounts) }
Container0 == MkContainer("c1", "img1", NilSlice)
ContainerSamples ==
    { Container0, MkContainer("c2", "img1", NilSlice), MkContainer("c1", "img2", NilSlice) }
ContainerLists ==
    { MkSlice(s) : s \in SeqsUpTo(ContainerSamples, MaxContainers) }
    \cup { MkSlice(<<MkContainer("c1", "img1", m)>>) : m \in MountLists }

MkPod(podIP, podIPs, hostIP, sa, hostNet, annos, labels, containers) ==
    [ TypeMeta |-> [Kind |-> "Pod", APIVersion |-> "v1"],
      ObjectMeta |-> MkMeta("pod", "default", labels, annos),
      Spec |-> [ Containers |-> containers, ServiceAccountName |-> sa,
                 NodeName |-> "node", HostNetwork |-> hostNet ],
      Status |-> [ HostIP |-> hostIP, PodIP |-> podIP, PodIPs |-> podIPs ] ]

PodIPsSamples ==
    { NilSlice, MkSlice(<<>>), MkSlice(<<"10.0.0.1">>),
      MkSlice(<<"10.0.0.1", "fd00::1">>), MkSlice(<<"fd00::1", "10.0.0.1">>) }
PodAnnotationSamples ==
    { NilMap, MkMap({<<ProxyVisibility, "">>}), MkMap({<<ProxyVisibility, "x">>}),
      MkMap({<<OtherAnnotation, "x">>}) }
PodLabelSamples ==
    { NilMap, MkMap({<<"app", "x">>}), MkMap({<<"app", "y">>}),
      MkMap({<<"app", "x">>, <<"tier", "x">>}) }

ContainerEnvSamples ==
    { [Container0 EXCEPT !.Env = "A=1"],
      [Container0 EXCEPT !.Env = "A=2"],
      MkContainer("c1", "img1", MkSlice(<<MkMount("/a")>>)),
      MkContainer("c1", "img1", MkSlice(<<[MkMount("/a") EXCEPT !.Name = "vol2"]>>)) }
PodBaseIPs == MkSlice(<<"10.0.0.1">>)
PodBaseContainers == MkSlice(<<Container0>>)
PodSamples ==
    { MkPod(ip, PodBaseIPs, "192.168.0.1", "sa1", FALSE, NilMap, NilMap, PodBaseContainers) :
        ip \in {"10.0.0.1", "10.0.0.2"} }
    \cup { MkPod("10.0.0.1", ips, "192.168.0.1", "sa1", FALSE, NilMap, NilMap, PodBaseContainers) :
        ips \in PodIPsSamples }
    \cup { MkPod("10.0.0.1", PodBaseIPs, "192.168.0.2", "sa1", FALSE, NilMap, NilMap, PodBaseContainers),
           MkPod("10.0.0.1", PodBaseIPs, "192.168.0.1", "sa2", FALSE, NilMap, NilMap, PodBaseContainers),
           MkPod("10.0.0.1", PodBaseIPs, "192.168.0.1", "sa1", TRUE, NilMap, NilMap, PodBaseContainers) }
    \cup { MkPod("10.0.0.1", PodBaseIPs, "192.168.0.1", "sa1", FALSE, a, NilMap, PodBaseContainers) :
        a \in PodAnnotationSamples }
    \cup { MkPod("10.0.0.1", PodBaseIPs, "192.168.0.1", "sa1", FALSE, NilMap, l, PodBaseContainers) :
        l \in PodLabelSamples }
    \cup { MkPod("10.0.0.1", PodBaseIPs, "192.168.0.1", "sa1", FALSE, NilMap, NilMap, cs) :
        cs \in ContainerLists }
    \cup { MkPod("10.0.0.1", PodBaseIPs, "192.168.0.1", "sa1", FALSE, NilMap, NilMap,
                 MkSlice(<<c>>)) : c \in ContainerEnvSamples }
    \cup { [MkPod("10.0.0.1", PodBaseIPs, "192.168.0.1", "sa1", FALSE, NilMap, NilMap,
                  PodBaseContainers) EXCEPT !.Spec.NodeName = "node2"] }

(***************************************************************************)
(* Service comparator.                                                     *)
(***************************************************************************)
GlobalService == "io.cilium/global-service"
SharedService == "io.cilium/shared-service"

\* ParseService: the service identifier and the service-info derived from a
\* Service and the node addressing.
ParseService(svc, nodeAddressing) ==
    LET includeExternal == MapIndex(svc.ObjectMeta.Annotations, GlobalService) = "true"
        shared == IF MapHas(svc.ObjectMeta.Annotations, SharedService)
                  THEN MapIndex(svc.ObjectMeta.Annotations, SharedService) = "true"
                  ELSE includeExternal
    IN  [ id |-> [Name |-> svc.ObjectMeta.Name, Namespace |-> svc.ObjectMeta.Namespace],
          info |-> [ Spec |-> svc.Spec, Labels |-> svc.ObjectMeta.Labels.kv,
                     IncludeExternal |-> includeExternal, Shared |-> shared,
                     nodeAddressing |-> nodeAddressing ] ]

\* (*K8sServiceInfo).DeepEquals
ServiceInfoDeepEquals(svc1, svc2) == svc1 = svc2

\* Compares only the derived identifier and service-info.
EqualV1ServicesNoAnnotations(k8sSVC1, k8sSVC2, nodeAddressing) ==
    LET p1 == ParseService(k8sSVC1, nodeAddressing)
        p2 == ParseService(k8sSVC2, nodeAddressing)
    IN  p1.id = p2.id /\ ServiceInfoDeepEquals(p1.info, p2.info)

EqualV1Services(k8sSVC1, k8sSVC2, nodeAddressing) ==
    IF ~MapStringEquals(k8sSVC1.ObjectMeta.Annotations, k8sSVC2.ObjectMeta.Annotations)
    THEN FALSE
    ELSE LET p1 == ParseService(k8sSVC1, nodeAddressing)
             p2 == ParseService(k8sSVC2, nodeAddressing)
         IN  IF p1.id # p2.id THEN FALSE
             ELSE ServiceInfoDeepEquals(p1.info, p2.info)

MkService(name, annos, spec) ==
    [ TypeMeta |-> [Kind |-> "Service", APIVersion |-> "v1"],
      ObjectMeta |-> MkMeta(name, "default", NilMap, annos),
      Spec |-> spec,
      Status |-> "" ]

ServiceAnnotationSamples ==
    { NilMap, MkMap({<<GlobalService, "true">>}), MkMap({<<GlobalService, "false">>}),
      MkMap({<<OtherAnnotation, "x">>}), MkMap({<<OtherAnnotation, "y">>}),
      MkMap({<<GlobalService, "true">>, <<OtherAnnotation, "x">>}),
      MkMap({<<GlobalService, "true">>, <<SharedService, "false">>}) }

ServiceSamples ==
    { MkService(n, a, sp) :
        n \in {"s1", "s2"}, a \in ServiceAnnotationSamples,
        sp \in {"ClusterIP 10.96.0.1:80", "ClusterIP 10.96.0.2:80"} }

NodeAddressing == "node-addressing"

(***************************************************************************)
(* EqualV2CNP.  The compared objects are the live cached objects: each     *)
(* holds a reference to its annotation map (0 for a nil map), two objects  *)
(* may share one map, and both arguments may be the same object.           *)
(***************************************************************************)
LastAppliedConfigAnnotation == "kubectl.kubernetes.io/last-applied-configuration"

\* reflect.DeepEqual on the representations of this model.
DeepEqual(x, y) == x = y

\* obj.GetAnnotations(): the object's annotation map as a Go map value.
GetAnnotations(objs, maps, p) ==
    IF objs[p].ObjectMeta.Annotations = 0 THEN NilMap
    ELSE MkMap(maps[objs[p].ObjectMeta.Annotations])

\* Line 161: the identity check.
SameIdentity(a, b) ==
    a.ObjectMeta.Name = b.ObjectMeta.Name /\ a.ObjectMeta.Namespace = b.ObjectMeta.Namespace

\* Compares the annotations and Spec only.
CompareCNPNoSpecs(anno1, anno2, a, b) ==
    MapStringEquals(anno1, anno2) /\ DeepEqual(a.Spec, b.Spec)

\* Lines 179-181: the comparison made once the annotation is removed.
CompareCNP(anno1, anno2, a, b) ==
    /\ MapStringEquals(anno1, anno2)
    /\ DeepEqual(a.Spec, b.Spec)
    /\ DeepEqual(a.Specs, b.Specs)

\* delete(obj.GetAnnotations(), key) on the live maps.
DeleteAnnotation(objs, maps, p, k) ==
    LET r == objs[p].ObjectMeta.Annotations
    IN  IF r = 0 THEN maps
        ELSE [maps EXCEPT ![r] = MapDelete(MkMap(@), k).kv]

\* Restores the second object's annotation with the first object's value.
RestoreAnnotationOfOther(objs, maps, p, locals, n) ==
    LET r == objs[p].ObjectMeta.Annotations
    IN  IF locals.ok[n] /\ r # 0
        THEN [maps EXCEPT ![r] = MapStore(MkMap(@), LastAppliedConfigAnnotation, locals.la[1]).kv]
        ELSE maps

\* Restores nothing.
RestoreAnnotationNever(objs, maps, p, locals, n) == maps

\* Lines 169-174: the deferred restore of argument n (1 or 2), object p.
RestoreAnnotation(objs, maps, p, locals, n) ==
    LET r == objs[p].ObjectMeta.Annotations
    IN  IF locals.ok[n] /\ r # 0
        THEN [maps EXCEPT ![r] = MapStore(MkMap(@), LastAppliedConfigAnnotation, locals.la[n]).kv]
        ELSE maps

\* The value EqualV2CNP returns for two objects given by value.
EqualV2CNP(a, b) ==
    IF ~SameIdentity(a, b) THEN FALSE
    ELSE CompareCNP(MapDelete(a.ObjectMeta.Annotations, LastAppliedConfigAnnotation),
                    MapDelete(b.ObjectMeta.Annotations, LastAppliedConfigAnnotation), a, b)

NilPtr == [nil |-> TRUE, v |-> ""]
MkPtr(v) == [nil |-> FALSE, v |-> v]

MkCachedCNP(name, ns, spec, specs, annoRef) ==
    [ ObjectMeta |-> [Name |-> name, Namespace |-> ns, Annotations |-> annoRef],
      Spec |-> spec, Specs |-> specs ]

\* A base object and objects that differ from it in one field.
CNPFieldSamples ==
    { <<"cnp", "default", MkPtr("rule1"), MkSlice(<<"rule1">>)>>,
      <<"other", "default", MkPtr("rule1"), MkSlice(<<"rule1">>)>>,
      <<"cnp", "kube-system", MkPtr("rule1"), MkSlice(<<"rule1">>)>>,
      <<"cnp", "default", NilPtr, MkSlice(<<"rule1">>)>>,
      <<"cnp", "default", MkPtr("rule2"), MkSlice(<<"rule1">>)>>,
      <<"cnp", "default", MkPtr("rule1"), NilSlice>>,
      <<"cnp", "default", MkPtr("rule1"), MkSlice(<<>>)>>,
      <<"cnp", "default", MkPtr("rule1"), MkSlice(<<"rule2">>)>> }

CNPAnnotationContents ==
    { la \cup ot :
        la \in { {}, {<<LastAppliedConfigAnnotation, "cfg1">>},
                 {<<LastAppliedConfigAnnotation, "cfg2">>} },
        ot \in { {}, {<<OtherAnnotation, "x">>}, {<<OtherAnnotation, "y">>} } }

CnpInit ==
    /\ cnpPc = "start"
    /\ cnpRet = FALSE
    /\ cnpLocals = [la |-> <<"", "">>, ok |-> <<FALSE, FALSE>>]
    /\ cnp1 = 1
    /\ \E f1 \in CNPFieldSamples, r1 \in {0, 1} :
          \/ \* both arguments are the same object
             /\ cnp2 = 1
             /\ cnpObjs = [p \in {1, 2} |-> MkCachedCNP(f1[1], f1[2], f1[3], f1[4], r1)]
             /\ \E m1 \in (IF r1 = 0 THEN {{}} ELSE CNPAnnotationContents) :
                   cnpMaps = <<m1, {}>>
          \/ \* two objects; the second has no map, shares the first's, or has its own
             /\ cnp2 = 2
             /\ \E f2 \in CNPFieldSamples, r2 \in {0, 1, 2} :
                   /\ r2 = 1 => r1 = 1
                   /\ cnpObjs = <<MkCachedCNP(f1[1], f1[2], f1[3], f1[4], r1),
                                  MkCachedCNP(f2[1], f2[2], f2[3], f2[4], r2)>>
                   /\ \E m1 \in (IF r1 = 0 THEN {{}} ELSE CNPAnnotationContents),
                         m2 \in (IF r2 = 2 THEN CNPAnnotationContents ELSE {{}}) :
                         cnpMaps = <<m1, m2>>
    /\ cnpOrig = cnpMaps

\* Lines 161-163.
CNPCheckIdentity ==
    /\ cnpPc = "start"
    /\ IF SameIdentity(cnpObjs[cnp1], cnpObjs[cnp2])
       THEN cnpPc' = "lookup" /\ UNCHANGED cnpRet
       ELSE cnpPc' = "done" /\ cnpRet' = FALSE
    /\ UNCHANGED <<cnpObjs, cnpMaps, cnp1, cnp2, cnpLocals, cnpOrig>>
    /\ UNCHANGED <<eqVars, normVars, castVars, readerVars>>

\* Lines 166-167.
CNPLookup ==
    /\ cnpPc = "lookup"
    /\ LET a1 == GetAnnotations(cnpObjs, cnpMaps, cnp1)
           a2 == GetAnnotations(cnpObjs, cnpMaps, cnp2)
       IN  cnpLocals' =
             [ la |-> <<MapIndex(a1, LastAppliedConfigAnnotation),
                        MapIndex(a2, LastAppliedConfigAnnotation)>>,
               ok |-> <<MapHas(a1, LastAppliedConfigAnnotation),
                        MapHas(a2, LastAppliedConfigAnnotation)>> ]
    /\ cnpPc' = "delete1"
    /\ UNCHANGED <<cnpObjs, cnpMaps, cnp1, cnp2, cnpRet, cnpOrig>>
    /\ UNCHANGED <<eqVars, normVars, castVars, readerVars>>

\* Line 176.
CNPDelete1 ==
    /\ cnpPc = "delete1"
    /\ cnpMaps' = DeleteAnnotation(cnpObjs, cnpMaps, cnp1, LastAppliedConfigAnnotation)
    /\ cnpPc' = "delete2"
    /\ UNCHANGED <<cnpObjs, cnp1, cnp2, cnpLocals, cnpRet, cnpOrig>>
    /\ UNCHANGED <<eqVars, normVars, castVars, readerVars>>

\* Line 177.
CNPDelete2 ==
    /\ cnpPc = "delete2"
    /\ cnpMaps' = DeleteAnnotation(cnpObjs, cnpMaps, cnp2, LastAppliedConfigAnnotation)
    /\ cnpPc' = "compare"
    /\ UNCHANGED <<cnpObjs, cnp1, cnp2, cnpLocals, cnpRet, cnpOrig>>
    /\ UNCHANGED <<eqVars, normVars, castVars, readerVars>>

\* Lines 179-181: the return value is computed, then the deferred function runs.
CNPCompare ==
    /\ cnpPc = "compare"
    /\ cnpRet' = CompareCNP(GetAnnotations(cnpObjs, cnpMaps, cnp1),
                            GetAnnotations(cnpObjs, cnpMaps, cnp2),
                            cnpObjs[cnp1], cnpObjs[cnp2])
    /\ cnpPc' = "restore1"
    /\ UNCHANGED <<cnpObjs, cnpMaps, cnp1, cnp2, cnpLocals, cnpOrig>>
    /\ UNCHANGED <<eqVars, normVars, castVars, readerVars>>

\* Lines 169-171.
CNPRestore1 ==
    /\ cnpPc = "restore1"
    /\ cnpMaps' = RestoreAnnotation(cnpObjs, cnpMaps, cnp1, cnpLocals, 1)
    /\ cnpPc' = "restore2"
    /\ UNCHANGED <<cnpObjs, cnp1, cnp2, cnpLocals, cnpRet, cnpOrig>>
    /\ UNCHANGED <<eqVars, normVars, castVars, readerVars>>

\* Lines 172-175.
CNPRestore2 ==
    /\ cnpPc = "restore2"
    /\ cnpMaps' = RestoreAnnotation(cnpObjs, cnpMaps, cnp2, cnpLocals, 2)
    /\ cnpPc' = "done"
    /\ UNCHANGED <<cnpObjs, cnp1, cnp2, cnpLocals, cnpRet, cnpOrig>>
    /\ UNCHANGED <<eqVars, normVars, castVars, readerVars>>

CnpNext ==
    \/ CNPCheckIdentity
    \/ CNPLookup
    \/ CNPDelete1
    \/ CNPDelete2
    \/ CNPCompare
    \/ CNPRestore1
    \/ CNPRestore2

CnpIdle ==
    /\ cnpObjs = <<>> /\ cnpMaps = <<>> /\ cnp1 = 0 /\ cnp2 = 0 /\ cnpPc = "idle"
    /\ cnpLocals = <<>> /\ cnpRet = FALSE /\ cnpOrig = <<>>
(***************************************************************************)
(* The remaining comparators.                                              *)
(***************************************************************************)
EqualV1NetworkPolicy(np1, np2) ==
    /\ np1.ObjectMeta.Name = np2.ObjectMeta.Name
    /\ np1.ObjectMeta.Namespace = np2.ObjectMeta.Namespace
    /\ DeepEqual(np1.Spec, np2.Spec)

EqualV1Endpoints(ep1, ep2) ==
    /\ ep1.ObjectMeta.Name = ep2.ObjectMeta.Name
    /\ ep1.ObjectMeta.Namespace = ep2.ObjectMeta.Namespace
    /\ DeepEqual(ep1.Subsets, ep2.Subsets)

\* Compares the address type as well.
EqualV1EndpointSliceWithAddressType(ep1, ep2) ==
    /\ ep1.ObjectMeta.Name = ep2.ObjectMeta.Name
    /\ ep1.ObjectMeta.Namespace = ep2.ObjectMeta.Namespace
    /\ DeepEqual(ep1.AddressType, ep2.AddressType)
    /\ DeepEqual(ep1.Endpoints, ep2.Endpoints)
    /\ DeepEqual(ep1.Ports, ep2.Ports)

EqualV1EndpointSlice(ep1, ep2) ==
    /\ ep1.ObjectMeta.Name = ep2.ObjectMeta.Name
    /\ ep1.ObjectMeta.Namespace = ep2.ObjectMeta.Namespace
    /\ DeepEqual(ep1.Endpoints, ep2.Endpoints)
    /\ DeepEqual(ep1.Ports, ep2.Ports)

\* Compares the names and requires the label maps to differ.
EqualV1NamespaceLabelsDiffer(ns1, ns2) ==
    /\ ns1.ObjectMeta.Name = ns2.ObjectMeta.Name
    /\ ~MapStringEquals(ns1.ObjectMeta.Labels, ns2.ObjectMeta.Labels)

EqualV1Namespace(ns1, ns2) ==
    /\ ns1.ObjectMeta.Name = ns2.ObjectMeta.Name
    /\ MapStringEquals(ns1.ObjectMeta.Labels, ns2.ObjectMeta.Labels)

(***************************************************************************)
(* Operands of the Namespace, Endpoints and EndpointSlice comparators.     *)
(***************************************************************************)
NamespaceSamples ==
    { [ TypeMeta |-> [Kind |-> "Namespace", APIVersion |-> "v1"],
        ObjectMeta |-> MkMeta(n, "", l, a) ] :
        n \in {"ns1", "ns2"},
        l \in {NilMap, MkMap({<<"app", "x">>}), MkMap({<<"app", "y">>})},
        a \in {NilMap, MkMap({<<OtherAnnotation, "x">>}), MkMap({<<OtherAnnotation, "y">>})} }

EndpointsSamples ==
    { [ TypeMeta |-> [Kind |-> "Endpoints", APIVersion |-> "v1"],
        ObjectMeta |-> MkMeta(n, ns, l, a), Subsets |-> s ] :
        n \in {"svc", "svc2"}, ns \in {"default", "kube-system"},
        l \in {NilMap, MkMap({<<"app", "x">>})},
        a \in {NilMap, MkMap({<<OtherAnnotation, "x">>})},
        s \in {NilSlice, MkSlice(<<>>), MkSlice(<<"10.0.0.1:80">>)} }

EndpointSliceSamples ==
    { [ TypeMeta |-> [Kind |-> "EndpointSlice", APIVersion |-> "discovery.k8s.io/v1beta1"],
        ObjectMeta |-> MkMeta(n, ns, NilMap, NilMap),
        AddressType |-> t, Endpoints |-> e, Ports |-> pt ] :
        n \in {"svc-1", "svc-2"}, ns \in {"default", "kube-system"},
        t \in {"IPv4", "IPv6"},
        e \in {NilSlice, MkSlice(<<"10.0.0.1">>)},
        pt \in {NilSlice, MkSlice(<<"80">>)} }

(***************************************************************************)
(* The comparator specification: the operands are drawn from the sample    *)
(* sets and the comparator of their kind is applied once.                  *)
(***************************************************************************)
EqInit ==
    /\ eqPc = "start"
    /\ eqRet = FALSE
    /\ \/ eqKind = "Node" /\ eqA \in NodeSamples /\ eqB \in NodeSamples
       \/ eqKind = "Pod" /\ eqA \in PodSamples /\ eqB \in PodSamples
       \/ eqKind = "Service" /\ eqA \in ServiceSamples /\ eqB \in ServiceSamples
       \/ eqKind = "Namespace" /\ eqA \in NamespaceSamples /\ eqB \in NamespaceSamples
       \/ eqKind = "Endpoints" /\ eqA \in EndpointsSamples /\ eqB \in EndpointsSamples
       \/ eqKind = "EndpointSlice" /\ eqA \in EndpointSliceSamples
                                   /\ eqB \in EndpointSliceSamples

CallEqualV1Node ==
    /\ eqPc = "start" /\ eqKind = "Node"
    /\ eqRet' = EqualV1Node(eqA, eqB)
    /\ eqPc' = "done"
    /\ UNCHANGED <<eqKind, eqA, eqB>>
    /\ UNCHANGED <<cnpVars, normVars, castVars, readerVars>>

CallEqualV1Pod ==
    /\ eqPc = "start" /\ eqKind = "Pod"
    /\ eqRet' = EqualV1Pod(eqA, eqB)
    /\ eqPc' = "done"
    /\ UNCHANGED <<eqKind, eqA, eqB>>
    /\ UNCHANGED <<cnpVars, normVars, castVars, readerVars>>

CallEqualV1Services ==
    /\ eqPc = "start" /\ eqKind = "Service"
    /\ eqRet' = EqualV1Services(eqA, eqB, NodeAddressing)
    /\ eqPc' = "done"
    /\ UNCHANGED <<eqKind, eqA, eqB>>
    /\ UNCHANGED <<cnpVars, normVars, castVars, readerVars>>

CallEqualV1Namespace ==
    /\ eqPc = "start" /\ eqKind = "Namespace"
    /\ eqRet' = EqualV1Namespace(eqA, eqB)
    /\ eqPc' = "done"
    /\ UNCHANGED <<eqKind, eqA, eqB>>
    /\ UNCHANGED <<cnpVars, normVars, castVars, readerVars>>

CallEqualV1Endpoints ==
    /\ eqPc = "start" /\ eqKind = "Endpoints"
    /\ eqRet' = EqualV1Endpoints(eqA, eqB)
    /\ eqPc' = "done"
    /\ UNCHANGED <<eqKind, eqA, eqB>>
    /\ UNCHANGED <<cnpVars, normVars, castVars, readerVars>>

CallEqualV1EndpointSlice ==
    /\ eqPc = "start" /\ eqKind = "EndpointSlice"
    /\ eqRet' = EqualV1EndpointSlice(eqA, eqB)
    /\ eqPc' = "done"
    /\ UNCHANGED <<eqKind, eqA, eqB>>
    /\ UNCHANGED <<cnpVars, normVars, castVars, readerVars>>

EqNext ==
    \/ CallEqualV1Node
    \/ CallEqualV1Pod
    \/ CallEqualV1Services
    \/ CallEqualV1Namespace
    \/ CallEqualV1Endpoints
    \/ CallEqualV1EndpointSlice

EqIdle ==
    eqKind = "" /\ eqA = <<>> /\ eqB = <<>> /\ eqPc = "idle" /\ eqRet = FALSE

(***************************************************************************)
(* Normalization.  The raw objects live in a heap (address -> object); an  *)
(* interface{} value is a pointer to a heap object, a                      *)
(* cache.DeletedFinalStateUnknown, a freshly built slim object, nil, or a  *)
(* value of some unrelated type.                                           *)
(***************************************************************************)
TNetworkPolicy == "*networkingv1.NetworkPolicy"
TService == "*v1.Service"
TEndpoints == "*v1.Endpoints"
TEndpointSlice == "*v1beta1.EndpointSlice"
TCNP == "*cilium_v2.CiliumNetworkPolicy"
TCCNP == "*cilium_v2.CiliumClusterwideNetworkPolicy"
TNode == "*v1.Node"
TNamespace == "*v1.Namespace"
TCiliumNode == "*cilium_v2.CiliumNode"
TCiliumEndpoint == "*cilium_v2.CiliumEndpoint"
TDeleted == "cache.DeletedFinalStateUnknown"

Ptr(type, a) == [tag |-> "ptr", type |-> type, addr |-> a]
Slim(type, v) == [tag |-> "slim", type |-> type, v |-> v]
NilInterface == [tag |-> "nil", type |-> "<nil>"]
OtherValue == [tag |-> "other", type |-> "string"]
Tombstone(k, o) == [tag |-> "tombstone", type |-> TDeleted, Key |-> k, Obj |-> o]
Panic == [tag |-> "panic", type |-> "nil pointer dereference"]

\* The dynamic type a type switch or a type assertion sees.
DynType(v) == v.type

\* What a converter yields: the value returned (or Panic) and the heap it leaves.
Ret(out, h) == [out |-> out, heap |-> h]

TM(kind) == [Kind |-> kind, APIVersion |-> "v1"]

ZeroNodeSpec == [PodCIDR |-> "", PodCIDRs |-> NilSlice, Taints |-> NilSlice, ProviderID |-> ""]
ZeroNodeStatus == [Addresses |-> NilSlice, NodeInfo |-> ""]
ZeroEncryption == [Key |-> 0]
ZeroEndpointStatus ==
    [ ID |-> 0, Encryption |-> ZeroEncryption, Identity |-> NilPtr, Networking |-> NilPtr,
      NamedPorts |-> NilSlice, State |-> "" ]

\* The zero value of the struct a pointer of the given type points to.
ZeroValue(type) ==
    CASE type = TNode ->
            [ type |-> type, TypeMeta |-> ZeroTypeMeta, ObjectMeta |-> ZeroObjectMeta,
              Spec |-> ZeroNodeSpec, Status |-> ZeroNodeStatus ]
      [] type = TNamespace ->
            [ type |-> type, TypeMeta |-> ZeroTypeMeta, ObjectMeta |-> ZeroObjectMeta,
              Spec |-> "", Status |-> "" ]
      [] type = TCNP ->
            [ type |-> type, TypeMeta |-> ZeroTypeMeta, ObjectMeta |-> ZeroObjectMeta,
              Spec |-> NilPtr, Specs |-> NilSlice, Status |-> "" ]
      [] type = TCCNP ->
            [ type |-> type, CiliumNetworkPolicy |-> 0, Status |-> "" ]
      [] type = TCiliumEndpoint ->
            [ type |-> type, TypeMeta |-> ZeroTypeMeta, ObjectMeta |-> ZeroObjectMeta,
              Status |-> ZeroEndpointStatus ]

(***************************************************************************)
(* Raw objects delivered by the watch layer.                               *)
(***************************************************************************)
SomeLabels == MkMap({<<"app", "x">>})
SomeAnnotations == MkMap({<<LastAppliedConfigAnnotation, "cfg1">>, <<OtherAnnotation, "x">>})

RawNetworkPolicies ==
    { [ type |-> TNetworkPolicy, TypeMeta |-> TM("NetworkPolicy"),
        ObjectMeta |-> MkMeta("np", "default", SomeLabels, NilMap), Spec |-> sp ] :
        sp \in {"", "allow-a"} }
RawServices ==
    { [ type |-> TService, TypeMeta |-> TM("Service"),
        ObjectMeta |-> MkMeta("svc", "default", SomeLabels, a),
        Spec |-> "ClusterIP 10.96.0.1:80", Status |-> "" ] :
        a \in {NilMap, MkMap({<<GlobalService, "true">>})} }
RawEndpoints ==
    { [ type |-> TEndpoints, TypeMeta |-> TM("Endpoints"),
        ObjectMeta |-> MkMeta("svc", "default", NilMap, NilMap), Subsets |-> s ] :
        s \in {NilSlice, MkSlice(<<"10.0.0.1:80">>)} }
RawEndpointSlices ==
    { [ type |-> TEndpointSlice, TypeMeta |-> TM("EndpointSlice"),
        ObjectMeta |-> MkMeta("svc-1", "default", NilMap, NilMap),
        AddressType |-> "IPv4", Endpoints |-> e, Ports |-> MkSlice(<<"80">>) ] :
        e \in {NilSlice, MkSlice(<<"10.0.0.1">>)} }
RawCNPs ==
    { [ type |-> TCNP, TypeMeta |-> TM("CiliumNetworkPolicy"),
        ObjectMeta |-> MkMeta("cnp", "default", NilMap, a),
        Spec |-> sp, Specs |-> MkSlice(<<"rule2">>), Status |-> "enforcing" ] :
        a \in {NilMap, SomeAnnotations}, sp \in {NilPtr, MkPtr("rule1")} }
\* The embedded policy pointer is address 3, or absent.
RawCCNPs ==
    { [ type |-> TCCNP, CiliumNetworkPolicy |-> e, Status |-> st ] :
        e \in {0, 3}, st \in {"", "enforcing"} }
RawNodes ==
    { [ type |-> TNode, TypeMeta |-> TM("Node"),
        ObjectMeta |-> MkMeta(n, "", SomeLabels, MkMap({<<CiliumHostIP, "10.0.0.1">>})),
        Spec |-> [ PodCIDR |-> "10.1.0.0/24", PodCIDRs |-> MkSlice(<<"10.1.0.0/24">>),
                   Taints |-> t, ProviderID |-> "aws://i-1" ],
        Status |-> [ Addresses |-> MkSlice(<<"192.168.0.1">>), NodeInfo |-> "kernel 5.4" ] ] :
        n \in {"", "n1"}, t \in {NilSlice, MkSlice(<<Taint0>>)} }
RawNamespaces ==
    { [ type |-> TNamespace, TypeMeta |-> TM("Namespace"),
        ObjectMeta |-> MkMeta("ns", "", l, SomeAnnotations),
        Spec |-> "kubernetes", Status |-> "Active" ] :
        l \in {NilMap, SomeLabels} }
RawCiliumNodes ==
    { [ type |-> TCiliumNode, TypeMeta |-> TM("CiliumNode"),
        ObjectMeta |-> MkMeta("n1", "", NilMap, NilMap),
        Spec |-> sp, Status |-> "" ] :
        sp \in {"", "eni"} }
RawCiliumEndpoints ==
    { [ type |-> TCiliumEndpoint, TypeMeta |-> TM("CiliumEndpoint"),
        ObjectMeta |-> MkMeta("pod", "default", NilMap, NilMap),
        Status |-> [ ID |-> 7, Encryption |-> [Key |-> k], Identity |-> id,
                     Networking |-> MkPtr("10.0.0.5"), NamedPorts |-> MkSlice(<<"http:80">>),
                     State |-> "ready" ] ] :
        k \in {0, 3}, id \in {NilPtr, MkPtr("identity 1234")} }

RawObjects ==
    RawNetworkPolicies \cup RawServices \cup RawEndpoints \cup RawEndpointSlices
    \cup RawCNPs \cup RawCCNPs \cup RawNodes \cup RawNamespaces \cup RawCiliumNodes
    \cup RawCiliumEndpoints

\* Two further objects of the heap: a Node no event refers to by address 1,
\* and the policy a cluster-wide policy embeds.
BystanderNode == CHOOSE n \in RawNodes : n.ObjectMeta.Name = "n1" /\ ~n.Spec.Taints.nil
EmbeddedCNP ==
    [ type |-> TCNP, TypeMeta |-> TM("CiliumClusterwideNetworkPolicy"),
      ObjectMeta |-> MkMeta("ccnp", "", NilMap, SomeAnnotations),
      Spec |-> MkPtr("rule1"), Specs |-> NilSlice, Status |-> "" ]

(***************************************************************************)
(* The converters.  Each takes the interface{} value and the heap, and     *)
(* yields the value returned and the heap left behind.                     *)
(***************************************************************************)
ConvertToNetworkPolicy(obj, h) ==
    IF DynType(obj) = TNetworkPolicy
    THEN Ret(Slim("*types.NetworkPolicy", [NetworkPolicy |-> obj.addr]), h)
    ELSE IF DynType(obj) = TDeleted
    THEN IF DynType(obj.Obj) # TNetworkPolicy THEN Ret(obj, h)
         ELSE Ret(Tombstone(obj.Key, Slim("*types.NetworkPolicy", [NetworkPolicy |-> obj.Obj.addr])), h)
    ELSE Ret(obj, h)

ConvertToK8sService(obj, h) ==
    IF DynType(obj) = TService
    THEN Ret(Slim("*types.Service", [Service |-> obj.addr]), h)
    ELSE IF DynType(obj) = TDeleted
    THEN IF DynType(obj.Obj) # TService THEN Ret(obj, h)
         ELSE Ret(Tombstone(obj.Key, Slim("*types.Service", [Service |-> obj.Obj.addr])), h)
    ELSE Ret(obj, h)

ConvertToK8sEndpoints(obj, h) ==
    IF DynType(obj) = TEndpoints
    THEN Ret(Slim("*types.Endpoints", [Endpoints |-> obj.addr]), h)
    ELSE IF DynType(obj) = TDeleted
    THEN IF DynType(obj.Obj) # TEndpoints THEN Ret(obj, h)
         ELSE Ret(Tombstone(obj.Key, Slim("*types.Endpoints", [Endpoints |-> obj.Obj.addr])), h)
    ELSE Ret(obj, h)

ConvertToK8sEndpointSlice(obj, h) ==
    IF DynType(obj) = TEndpointSlice
    THEN Ret(Slim("*types.EndpointSlice", [EndpointSlice |-> obj.addr]), h)
    ELSE IF DynType(obj) = TDeleted
    THEN IF DynType(obj.Obj) # TEndpointSlice THEN Ret(obj, h)
         ELSE Ret(Tombstone(obj.Key, Slim("*types.EndpointSlice", [EndpointSlice |-> obj.Obj.addr])), h)
    ELSE Ret(obj, h)

\* t.Status = concreteObj.Status stores through the embedded policy pointer
\* that t shares with the cluster-wide object.
ConvertToCCNPWithStatus(obj, h) ==
    IF DynType(obj) = TCCNP
    THEN LET concreteObj == h[obj.addr]
             t == Slim("*types.SlimCNP", [CiliumNetworkPolicy |-> concreteObj.CiliumNetworkPolicy])
         IN  IF t.v.CiliumNetworkPolicy = 0 THEN Ret(Panic, h)
             ELSE Ret(t, [h EXCEPT ![t.v.CiliumNetworkPolicy].Status = concreteObj.Status])
    ELSE IF DynType(obj) = TDeleted
    THEN IF DynType(obj.Obj) # TCCNP THEN Ret(obj, h)
         ELSE LET cnp == h[obj.Obj.addr]
                  t == Slim("*types.SlimCNP", [CiliumNetworkPolicy |-> cnp.CiliumNetworkPolicy])
              IN  IF t.v.CiliumNetworkPolicy = 0 THEN Ret(Panic, h)
                  ELSE Ret(Tombstone(obj.Key, t),
                           [h EXCEPT ![t.v.CiliumNetworkPolicy].Status = cnp.Status])
    ELSE Ret(obj, h)

ConvertToCNPWithStatus(obj, h) ==
    IF DynType(obj) = TCNP
    THEN Ret(Slim("*types.SlimCNP", [CiliumNetworkPolicy |-> obj.addr]), h)
    ELSE IF DynType(obj) = TDeleted
    THEN IF DynType(obj.Obj) # TCNP THEN Ret(obj, h)
         ELSE Ret(Tombstone(obj.Key,
                            Slim("*types.SlimCNP", [CiliumNetworkPolicy |-> obj.Obj.addr])), h)
    ELSE Ret(obj, h)

\* TypeMeta, ObjectMeta, Spec and Specs of a cluster-wide policy are those of
\* the policy it embeds by pointer.  The new policy is allocated at the next
\* free address.
ConvertToCCNP(obj, h) ==
    IF DynType(obj) = TCCNP
    THEN LET concreteObj == h[obj.addr]
             e == concreteObj.CiliumNetworkPolicy
         IN  IF e = 0 THEN Ret(Panic, h)
             ELSE LET new == [ type |-> TCNP,
                               TypeMeta |-> h[e].TypeMeta,
                               ObjectMeta |-> h[e].ObjectMeta,
                               Spec |-> h[e].Spec,
                               Specs |-> h[e].Specs,
                               Status |-> "" ]
                      cnp == Slim("*types.SlimCNP", [CiliumNetworkPolicy |-> Len(h) + 1])
                  IN  Ret(cnp, [Append(h, new) EXCEPT ![obj.addr] = ZeroValue(TCCNP)])
    ELSE IF DynType(obj) = TDeleted
    THEN IF DynType(obj.Obj) # TCCNP THEN Ret(obj, h)
         ELSE LET cnp == h[obj.Obj.addr]
                  e == cnp.CiliumNetworkPolicy
              IN  IF e = 0 THEN Ret(Panic, h)
                  ELSE LET new == [ type |-> TCNP,
                                    TypeMeta |-> h[e].TypeMeta,
                                    ObjectMeta |-> h[e].ObjectMeta,
                                    Spec |-> h[e].Spec,
                                    Specs |-> h[e].Specs,
                                    Status |-> "" ]
                           dfsu == Tombstone(obj.Key,
                                     Slim("*types.SlimCNP", [CiliumNetworkPolicy |-> Len(h) + 1]))
                       IN  Ret(dfsu, [Append(h, new) EXCEPT ![obj.Obj.addr] = ZeroValue(TCCNP)])
    ELSE Ret(obj, h)

ConvertToCNP(obj, h) ==
    IF DynType(obj) = TCNP
    THEN LET concreteObj == h[obj.addr]
             new == [ type |-> TCNP,
                      TypeMeta |-> concreteObj.TypeMeta,
                      ObjectMeta |-> concreteObj.ObjectMeta,
                      Spec |-> concreteObj.Spec,
                      Specs |-> concreteObj.Specs,
                      Status |-> "" ]
             cnp == Slim("*types.SlimCNP", [CiliumNetworkPolicy |-> Len(h) + 1])
         IN  Ret(cnp, [Append(h, new) EXCEPT ![obj.addr] = ZeroValue(TCNP)])
    ELSE IF DynType(obj) = TDeleted
    THEN IF DynType(obj.Obj) # TCNP THEN Ret(obj, h)
         ELSE LET cnp == h[obj.Obj.addr]
                  new == [ type |-> TCNP,
                           TypeMeta |-> cnp.TypeMeta,
                           ObjectMeta |-> cnp.ObjectMeta,
                           Spec |-> cnp.Spec,
                           Specs |-> cnp.Specs,
                           Status |-> "" ]
                  dfsu == Tombstone(obj.Key,
                            Slim("*types.SlimCNP", [CiliumNetworkPolicy |-> Len(h) + 1]))
              IN  Ret(dfsu, [Append(h, new) EXCEPT ![obj.Obj.addr] = ZeroValue(TCNP)])
    ELSE Ret(obj, h)

\* Omits *concreteObj = v1.Node{}: the source Node is left as it was.
ConvertToNodeNoClear(obj, h) ==
    IF DynType(obj) = TNode
    THEN LET concreteObj == h[obj.addr]
             p == Slim("*types.Node",
                       [ TypeMeta |-> concreteObj.TypeMeta,
                         ObjectMeta |-> concreteObj.ObjectMeta,
                         StatusAddresses |-> concreteObj.Status.Addresses,
                         SpecPodCIDR |-> concreteObj.Spec.PodCIDR,
                         SpecPodCIDRs |-> concreteObj.Spec.PodCIDRs,
                         SpecTaints |-> concreteObj.Spec.Taints ])
         IN  Ret(p, h)
    ELSE IF DynType(obj) = TDeleted
    THEN IF DynType(obj.Obj) # TNode THEN Ret(obj, h)
         ELSE LET node == h[obj.Obj.addr]
                  dfsu == Tombstone(obj.Key,
                            Slim("*types.Node",
                                 [ TypeMeta |-> node.TypeMeta,
                                   ObjectMeta |-> node.ObjectMeta,
                                   StatusAddresses |-> node.Status.Addresses,
                                   SpecPodCIDR |-> node.Spec.PodCIDR,
                                   SpecPodCIDRs |-> node.Spec.PodCIDRs,
                                   SpecTaints |-> node.Spec.Taints ]))
              IN  Ret(dfsu, h)
    ELSE Ret(obj, h)

\* The tombstone branch re-wraps the normalized Node under an empty key.
ConvertToNodeDropsKey(obj, h) ==
    IF DynType(obj) = TNode
    THEN LET concreteObj == h[obj.addr]
             p == Slim("*types.Node",
                       [ TypeMeta |-> concreteObj.TypeMeta,
                         ObjectMeta |-> concreteObj.ObjectMeta,
                         StatusAddresses |-> concreteObj.Status.Addresses,
                         SpecPodCIDR |-> concreteObj.Spec.PodCIDR,
                         SpecPodCIDRs |-> concreteObj.Spec.PodCIDRs,
                         SpecTaints |-> concreteObj.Spec.Taints ])
         IN  Ret(p, [h EXCEPT ![obj.addr] = ZeroValue(TNode)])
    ELSE IF DynType(obj) = TDeleted
    THEN IF DynType(obj.Obj) # TNode THEN Ret(obj, h)
         ELSE LET node == h[obj.Obj.addr]
                  dfsu == Tombstone("",
                            Slim("*types.Node",
                                 [ TypeMeta |-> node.TypeMeta,
                                   ObjectMeta |-> node.ObjectMeta,
                                   StatusAddresses |-> node.Status.Addresses,
                                   SpecPodCIDR |-> node.Spec.PodCIDR,
                                   SpecPodCIDRs |-> node.Spec.PodCIDRs,
                                   SpecTaints |-> node.Spec.Taints ]))
              IN  Ret(dfsu, [h EXCEPT ![obj.Obj.addr] = ZeroValue(TNode)])
    ELSE Ret(obj, h)

ConvertToNode(obj, h) ==
    IF DynType(obj) = TNode
    THEN LET concreteObj == h[obj.addr]
             p == Slim("*types.Node",
                       [ TypeMeta |-> concreteObj.TypeMeta,
                         ObjectMeta |-> concreteObj.ObjectMeta,
                         StatusAddresses |-> concreteObj.Status.Addresses,
                         SpecPodCIDR |-> concreteObj.Spec.PodCIDR,
                         SpecPodCIDRs |-> concreteObj.Spec.PodCIDRs,
                         SpecTaints |-> concreteObj.Spec.Taints ])
         IN  Ret(p, [h EXCEPT ![obj.addr] = ZeroValue(TNode)])
    ELSE IF DynType(obj) = TDeleted
    THEN IF DynType(obj.Obj) # TNode THEN Ret(obj, h)
         ELSE LET node == h[obj.Obj.addr]
                  dfsu == Tombstone(obj.Key,
                            Slim("*types.Node",
                                 [ TypeMeta |-> node.TypeMeta,
                                   ObjectMeta |-> node.ObjectMeta,
                                   StatusAddresses |-> node.Status.Addresses,
                                   SpecPodCIDR |-> node.Spec.PodCIDR,
                                   SpecPodCIDRs |-> node.Spec.PodCIDRs,
                                   SpecTaints |-> node.Spec.Taints ]))
              IN  Ret(dfsu, [h EXCEPT ![obj.Obj.addr] = ZeroValue(TNode)])
    ELSE Ret(obj, h)

\* Clears the payload of a tombstone whatever its type.
ConvertToNamespaceClearsAnyPayload(obj, h) ==
    IF DynType(obj) = TNamespace
    THEN LET concreteObj == h[obj.addr]
             p == Slim("*types.Namespace",
                       [ TypeMeta |-> concreteObj.TypeMeta,
                         ObjectMeta |-> concreteObj.ObjectMeta ])
         IN  Ret(p, [h EXCEPT ![obj.addr] = ZeroValue(TNamespace)])
    ELSE IF DynType(obj) = TDeleted
    THEN IF obj.Obj.tag # "ptr" THEN Ret(obj, h)
         ELSE IF DynType(obj.Obj) # TNamespace
         THEN Ret(obj, [h EXCEPT ![obj.Obj.addr] = ZeroValue(TNamespace)])
         ELSE LET namespace == h[obj.Obj.addr]
                  dfsu == Tombstone(obj.Key,
                            Slim("*types.Namespace",
                                 [ TypeMeta |-> namespace.TypeMeta,
                                   ObjectMeta |-> namespace.ObjectMeta ]))
              IN  Ret(dfsu, [h EXCEPT ![obj.Obj.addr] = ZeroValue(TNamespace)])
    ELSE Ret(obj, h)

ConvertToNamespace(obj, h) ==
    IF DynType(obj) = TNamespace
    THEN LET concreteObj == h[obj.addr]
             p == Slim("*types.Namespace",
                       [ TypeMeta |-> concreteObj.TypeMeta,
                         ObjectMeta |-> concreteObj.ObjectMeta ])
         IN  Ret(p, [h EXCEPT ![obj.addr] = ZeroValue(TNamespace)])
    ELSE IF DynType(obj) = TDeleted
    THEN IF DynType(obj.Obj) # TNamespace THEN Ret(obj, h)
         ELSE LET namespace == h[obj.Obj.addr]
                  dfsu == Tombstone(obj.Key,
                            Slim("*types.Namespace",
                                 [ TypeMeta |-> namespace.TypeMeta,
                                   ObjectMeta |-> namespace.ObjectMeta ]))
              IN  Ret(dfsu, [h EXCEPT ![obj.Obj.addr] = ZeroValue(TNamespace)])
    ELSE Ret(obj, h)

ConvertToCiliumNode(obj, h) ==
    IF DynType(obj) = TCiliumNode
    THEN Ret(obj, h)
    ELSE IF DynType(obj) = TDeleted
    THEN IF DynType(obj.Obj) # TCiliumNode THEN Ret(obj, h)
         ELSE Ret(Tombstone(obj.Key, obj.Obj), h)
    ELSE Ret(obj, h)

\* Encryption is &concreteObj.Status.Encryption: a pointer into the raw
\* object, held here as the address of that object.
ConvertToCiliumEndpoint(obj, h) ==
    IF DynType(obj) = TCiliumEndpoint
    THEN LET concreteObj == h[obj.addr]
             p == Slim("*types.CiliumEndpoint",
                       [ TypeMeta |-> concreteObj.TypeMeta,
                         ObjectMeta |-> concreteObj.ObjectMeta,
                         Encryption |-> obj.addr,
                         Identity |-> concreteObj.Status.Identity,
                         Networking |-> concreteObj.Status.Networking,
                         NamedPorts |-> concreteObj.Status.NamedPorts ])
         IN  Ret(p, [h EXCEPT ![obj.addr] = ZeroValue(TCiliumEndpoint)])
    ELSE IF DynType(obj) = TDeleted
    THEN IF DynType(obj.Obj) # TCiliumEndpoint THEN Ret(obj, h)
         ELSE LET ciliumEndpoint == h[obj.Obj.addr]
                  dfsu == Tombstone(obj.Key,
                            Slim("*types.CiliumEndpoint",
                                 [ TypeMeta |-> ciliumEndpoint.TypeMeta,
                                   ObjectMeta |-> ciliumEndpoint.ObjectMeta,
                                   Encryption |-> obj.Obj.addr,
                                   Identity |-> ciliumEndpoint.Status.Identity,
                                   Networking |-> ciliumEndpoint.Status.Networking,
                                   NamedPorts |-> ciliumEndpoint.Status.NamedPorts ]))
              IN  Ret(dfsu, [h EXCEPT ![obj.Obj.addr] = ZeroValue(TCiliumEndpoint)])
    ELSE Ret(obj, h)

\* *p.Encryption: the value the slim endpoint's encryption pointer leads to.
EncryptionOf(p, h) == h[p.v.Encryption].Status.Encryption

(***************************************************************************)
(* The normalization specification: one raw event is delivered and the     *)
(* converter registered for the informer is applied to it, up to MaxCalls  *)
(* times.  Every call is recorded with the heap before and after it.       *)
(***************************************************************************)
EventKey == "ns/name"

NormInit ==
    /\ \E subject \in RawObjects : heap = <<subject, BystanderNode, EmbeddedCNP>>
    /\ rawEvent \in
          { Ptr(heap[1].type, 1), Tombstone(EventKey, Ptr(heap[1].type, 1)),
            Ptr(heap[2].type, 2), Tombstone(EventKey, Ptr(heap[2].type, 2)),
            NilInterface, Tombstone(EventKey, NilInterface),
            OtherValue, Tombstone(EventKey, OtherValue) }
    /\ calls = <<>>

NormCall(fn, r) ==
    /\ Len(calls) < MaxCalls
    /\ \A i \in 1..Len(calls) : calls[i].fn = fn /\ calls[i].out.tag # "panic"
    /\ calls' = Append(calls, [fn |-> fn, pre |-> heap, out |-> r.out, post |-> r.heap])
    /\ heap' = r.heap
    /\ UNCHANGED <<rawEvent, eqVars, cnpVars, castVars, readerVars>>

CallConvertToNetworkPolicy ==
    NormCall("ConvertToNetworkPolicy", ConvertToNetworkPolicy(rawEvent, heap))
CallConvertToK8sService ==
    NormCall("ConvertToK8sService", ConvertToK8sService(rawEvent, heap))
CallConvertToK8sEndpoints ==
    NormCall("ConvertToK8sEndpoints", ConvertToK8sEndpoints(rawEvent, heap))
CallConvertToK8sEndpointSlice ==
    NormCall("ConvertToK8sEndpointSlice", ConvertToK8sEndpointSlice(rawEvent, heap))
CallConvertToCCNPWithStatus ==
    NormCall("ConvertToCCNPWithStatus", ConvertToCCNPWithStatus(rawEvent, heap))
CallConvertToCNPWithStatus ==
    NormCall("ConvertToCNPWithStatus", ConvertToCNPWithStatus(rawEvent, heap))
CallConvertToCCNP ==
    NormCall("ConvertToCCNP", ConvertToCCNP(rawEvent, heap))
CallConvertToCNP ==
    NormCall("ConvertToCNP", ConvertToCNP(rawEvent, heap))
CallConvertToNode ==
    NormCall("ConvertToNode", ConvertToNode(rawEvent, heap))
CallConvertToNamespace ==
    NormCall("ConvertToNamespace", ConvertToNamespace(rawEvent, heap))
CallConvertToCiliumNode ==
    NormCall("ConvertToCiliumNode", ConvertToCiliumNode(rawEvent, heap))
CallConvertToCiliumEndpoint ==
    NormCall("ConvertToCiliumEndpoint", ConvertToCiliumEndpoint(rawEvent, heap))

NormNext ==
    \/ CallConvertToNetworkPolicy
    \/ CallConvertToK8sService
    \/ CallConvertToK8sEndpoints
    \/ CallConvertToK8sEndpointSlice
    \/ CallConvertToCCNPWithStatus
    \/ CallConvertToCNPWithStatus
    \/ CallConvertToCCNP
    \/ CallConvertToCNP
    \/ CallConvertToNode
    \/ CallConvertToNamespace
    \/ CallConvertToCiliumNode
    \/ CallConvertToCiliumEndpoint

NormIdle ==
    heap = <<>> /\ rawEvent = NilInterface /\ calls = <<>>

\* The converter of the given name applied to obj in heap h.
Apply(fn, obj, h) ==
    CASE fn = "ConvertToNetworkPolicy" -> ConvertToNetworkPolicy(obj, h)
      [] fn = "ConvertToK8sService" -> ConvertToK8sService(obj, h)
      [] fn = "ConvertToK8sEndpoints" -> ConvertToK8sEndpoints(obj, h)
      [] fn = "ConvertToK8sEndpointSlice" -> ConvertToK8sEndpointSlice(obj, h)
      [] fn = "ConvertToCCNPWithStatus" -> ConvertToCCNPWithStatus(obj, h)
      [] fn = "ConvertToCNPWithStatus" -> ConvertToCNPWithStatus(obj, h)
      [] fn = "ConvertToCCNP" -> ConvertToCCNP(obj, h)
      [] fn = "ConvertToCNP" -> ConvertToCNP(obj, h)
      [] fn = "ConvertToNode" -> ConvertToNode(obj, h)
      [] fn = "ConvertToNamespace" -> ConvertToNamespace(obj, h)
      [] fn = "ConvertToCiliumNode" -> ConvertToCiliumNode(obj, h)
      [] fn = "ConvertToCiliumEndpoint" -> ConvertToCiliumEndpoint(obj, h)

\* The raw type each converter's type switch expects.
ExpectedType(fn) ==
    CASE fn = "ConvertToNetworkPolicy" -> TNetworkPolicy
      [] fn = "ConvertToK8sService" -> TService
      [] fn = "ConvertToK8sEndpoints" -> TEndpoints
      [] fn = "ConvertToK8sEndpointSlice" -> TEndpointSlice
      [] fn = "ConvertToCCNPWithStatus" -> TCCNP
      [] fn = "ConvertToCNPWithStatus" -> TCNP
      [] fn = "ConvertToCCNP" -> TCCNP
      [] fn = "ConvertToCNP" -> TCNP
      [] fn = "ConvertToNode" -> TNode
      [] fn = "ConvertToNamespace" -> TNamespace
      [] fn = "ConvertToCiliumNode" -> TCiliumNode
      [] fn = "ConvertToCiliumEndpoint" -> TCiliumEndpoint

\* The comparator of the kind fn normalizes, applied to two values fn
\* returned, in heap h.
EqualNormalized(fn, x, y, h) ==
    CASE fn = "ConvertToNetworkPolicy" ->
            EqualV1NetworkPolicy(h[x.v.NetworkPolicy], h[y.v.NetworkPolicy])
      [] fn = "ConvertToK8sService" ->
            EqualV1Services(h[x.v.Service], h[y.v.Service], NodeAddressing)
      [] fn = "ConvertToK8sEndpoints" ->
            EqualV1Endpoints(h[x.v.Endpoints], h[y.v.Endpoints])
      [] fn = "ConvertToK8sEndpointSlice" ->
            EqualV1EndpointSlice(h[x.v.EndpointSlice], h[y.v.EndpointSlice])
      [] fn \in {"ConvertToCCNPWithStatus", "ConvertToCNPWithStatus",
                 "ConvertToCCNP", "ConvertToCNP"} ->
            EqualV2CNP(h[x.v.CiliumNetworkPolicy], h[y.v.CiliumNetworkPolicy])
      [] fn = "ConvertToNode" -> EqualV1Node(x.v, y.v)
      [] fn = "ConvertToNamespace" -> EqualV1Namespace(x.v, y.v)

(***************************************************************************)
(* The ObjTo* casts.  A cast takes the interface{} value the converter     *)
(* returned (or the event itself where no converter ran), asserts its      *)
(* dynamic type, and returns either that pointer or a nil pointer after    *)
(* logging one warning.                                                    *)
(***************************************************************************)
TPod == "*slim_corev1.Pod"
TSlimNetworkPolicy == "*types.NetworkPolicy"
TSlimService == "*types.Service"
TSlimEndpoints == "*types.Endpoints"
TSlimEndpointSlice == "*types.EndpointSlice"
TSlimCNP == "*types.SlimCNP"
TSlimNode == "*types.Node"
TSlimNamespace == "*types.Namespace"
TSlimCiliumEndpoint == "*types.CiliumEndpoint"

NilPointer(type) == [tag |-> "nilptr", type |-> type]

\* log.WithField(logfields.Object, logfields.Repr(obj)).Warn(msg): the entry
\* written to the log.
Warn(obj, msg) == [level |-> "warning", msg |-> msg, object |-> obj]

\* The result of a cast: the pointer returned and the log entries written.
CastRet(ret, logged) == [ret |-> ret, logged |-> logged]

\* x, ok := obj.(T); if !ok { Warn(msg); return nil }; return x
TypeAssert(obj, type, msg) ==
    IF DynType(obj) = type
    THEN CastRet(obj, <<>>)
    ELSE CastRet(NilPointer(type), <<Warn(obj, msg)>>)

ObjToV1NetworkPolicy(obj) ==
    TypeAssert(obj, TSlimNetworkPolicy, "Ignoring invalid k8s v1 NetworkPolicy")

ObjToV1Services(obj) ==
    TypeAssert(obj, TSlimService, "Ignoring invalid k8s v1 Service")

ObjToV1Endpoints(obj) ==
    TypeAssert(obj, TSlimEndpoints, "Ignoring invalid k8s v1 Endpoints")

ObjToV1EndpointSlice(obj) ==
    TypeAssert(obj, TSlimEndpointSlice, "Ignoring invalid k8s v1 EndpointSlice")

ObjToSlimCNP(obj) ==
    TypeAssert(obj, TSlimCNP, "Ignoring invalid k8s v2 CiliumNetworkPolicy")

ObjTov1Pod(obj) ==
    TypeAssert(obj, TPod, "Ignoring invalid k8s v1 Pod")

\* Returns the payload of a tombstone as if the tombstone were the node.
ObjToV1NodeUnwrapsTombstone(obj) ==
    IF DynType(obj) = TSlimNode THEN CastRet(obj, <<>>)
    ELSE IF DynType(obj) = TDeleted /\ DynType(obj.Obj) = TSlimNode
    THEN CastRet(obj.Obj, <<>>)
    ELSE CastRet(NilPointer(TSlimNode), <<Warn(obj, "Ignoring invalid k8s v1 Node")>>)

ObjToV1Node(obj) ==
    TypeAssert(obj, TSlimNode, "Ignoring invalid k8s v1 Node")

ObjToV1Namespace(obj) ==
    TypeAssert(obj, TSlimNamespace, "Ignoring invalid k8s v1 Namespace")

ObjToCiliumNode(obj) ==
    TypeAssert(obj, TCiliumNode, "Ignoring invalid CiliumNode")

ObjToCiliumEndpoint(obj) ==
    TypeAssert(obj, TSlimCiliumEndpoint, "Ignoring invalid CiliumEndpoint")

\* A slim pod as the pod informer delivers it.
RawPods ==
    { [ type |-> TPod, TypeMeta |-> TM("Pod"),
        ObjectMeta |-> MkMeta("pod", "default", SomeLabels, NilMap),
        Spec |-> [ Containers |-> NilSlice, ServiceAccountName |-> "sa1",
                   NodeName |-> "node", HostNetwork |-> FALSE ],
        Status |-> [ HostIP |-> "192.168.0.1", PodIP |-> ip, PodIPs |-> NilSlice ] ] :
        ip \in {"", "10.0.0.1"} }

NoCast ==
    [ fn |-> "", obj |-> NilInterface, ret |-> NilInterface, logged |-> <<>>,
      pre |-> <<>>, post |-> <<>> ]

\* The value a cast is applied to: what the last converter call returned, or
\* the event where no converter has run.
CastArg == IF calls = <<>> THEN rawEvent ELSE calls[Len(calls)].out

CastInit ==
    /\ \E subject \in RawObjects \cup RawPods :
          heap = <<subject, BystanderNode, EmbeddedCNP>>
    /\ rawEvent \in
          { Ptr(heap[1].type, 1), Tombstone(EventKey, Ptr(heap[1].type, 1)),
            NilInterface, Tombstone(EventKey, NilInterface), OtherValue }
    /\ calls = <<>>
    /\ castPc = "ready"
    /\ castLast = NoCast

CastCall(fn, r) ==
    /\ castPc = "ready"
    /\ CastArg.tag # "panic"
    /\ castLast' = [ fn |-> fn, obj |-> CastArg, ret |-> r.ret, logged |-> r.logged,
                     pre |-> heap, post |-> heap ]
    /\ UNCHANGED <<castPc, normVars, eqVars, cnpVars, readerVars>>

CallObjToV1NetworkPolicy == CastCall("ObjToV1NetworkPolicy", ObjToV1NetworkPolicy(CastArg))

CallObjToV1Services == CastCall("ObjToV1Services", ObjToV1Services(CastArg))

CallObjToV1Endpoints == CastCall("ObjToV1Endpoints", ObjToV1Endpoints(CastArg))

CallObjToV1EndpointSlice == CastCall("ObjToV1EndpointSlice", ObjToV1EndpointSlice(CastArg))

CallObjToSlimCNP == CastCall("ObjToSlimCNP", ObjToSlimCNP(CastArg))

CallObjTov1Pod == CastCall("ObjTov1Pod", ObjTov1Pod(CastArg))

CallObjToV1Node == CastCall("ObjToV1Node", ObjToV1Node(CastArg))

CallObjToV1Namespace == CastCall("ObjToV1Namespace", ObjToV1Namespace(CastArg))

CallObjToCiliumNode == CastCall("ObjToCiliumNode", ObjToCiliumNode(CastArg))

CallObjToCiliumEndpoint == CastCall("ObjToCiliumEndpoint", ObjToCiliumEndpoint(CastArg))

\* An event is converted and cast, in any order and any number of times.
CastNext ==
    \/ CallConvertToNetworkPolicy
    \/ CallConvertToK8sService
    \/ CallConvertToK8sEndpoints
    \/ CallConvertToK8sEndpointSlice
    \/ CallConvertToCCNPWithStatus
    \/ CallConvertToCNPWithStatus
    \/ CallConvertToCCNP
    \/ CallConvertToCNP
    \/ CallConvertToNode
    \/ CallConvertToNamespace
    \/ CallConvertToCiliumNode
    \/ CallConvertToCiliumEndpoint
    \/ CallObjToV1NetworkPolicy
    \/ CallObjToV1Services
    \/ CallObjToV1Endpoints
    \/ CallObjToV1EndpointSlice
    \/ CallObjToSlimCNP
    \/ CallObjTov1Pod
    \/ CallObjToV1Node
    \/ CallObjToV1Namespace
    \/ CallObjToCiliumNode
    \/ CallObjToCiliumEndpoint

CastIdle ==
    castPc = "idle" /\ castLast = NoCast

(***************************************************************************)
(* A reader of the cached objects' annotations, running beside             *)
(* EqualV2CNP.  A serialized reader holds the lock that guards the cache   *)
(* for the whole call of EqualV2CNP, so it reads only before the call      *)
(* starts or after it has returned; an unserialized reader reads between   *)
(* any two statements of the call.  A read that overlaps a map write is a  *)
(* data race: it sees the map before or after the write, or the runtime    *)
(* stops the process ("concurrent map read and map write").                *)
(***************************************************************************)
NoObservation == [obj |-> 0, outcome |-> "", at |-> ""]

\* _, ok := obj.GetAnnotations()[LastAppliedConfigAnnotation]
Observe(p) ==
    IF MapHas(GetAnnotations(cnpObjs, cnpMaps, p), LastAppliedConfigAnnotation)
    THEN "present" ELSE "missing"

\* The statement EqualV2CNP is about to run writes the map object p refers to.
WritePending(p) ==
    LET r == cnpObjs[p].ObjectMeta.Annotations
    IN  /\ r # 0
        /\ \/ cnpPc = "delete1" /\ cnpObjs[cnp1].ObjectMeta.Annotations = r /\ cnpMaps[r] # {}
           \/ cnpPc = "delete2" /\ cnpObjs[cnp2].ObjectMeta.Annotations = r /\ cnpMaps[r] # {}
           \/ cnpPc = "restore1" /\ cnpObjs[cnp1].ObjectMeta.Annotations = r /\ cnpLocals.ok[1]
           \/ cnpPc = "restore2" /\ cnpObjs[cnp2].ObjectMeta.Annotations = r /\ cnpLocals.ok[2]

RaceOutcomes(p) ==
    {Observe(p)} \cup (IF WritePending(p) THEN {"fatal"} ELSE {})

ReaderInit ==
    /\ readerPc \in {"serialized", "unserialized"}
    /\ readerObs = NoObservation

ReaderReadSerialized ==
    /\ readerPc = "serialized"
    /\ cnpPc \in {"start", "done"}
    /\ \E p \in {cnp1, cnp2} :
          readerObs' = [obj |-> p, outcome |-> Observe(p), at |-> cnpPc]
    /\ UNCHANGED <<readerPc, cnpVars, eqVars, normVars, castVars>>

ReaderReadUnserialized ==
    /\ readerPc = "unserialized"
    /\ readerObs.outcome # "fatal"
    /\ \E p \in {cnp1, cnp2} : \E o \in RaceOutcomes(p) :
          readerObs' = [obj |-> p, outcome |-> o, at |-> cnpPc]
    /\ UNCHANGED <<readerPc, cnpVars, eqVars, normVars, castVars>>

ReaderNext ==
    \/ CNPCheckIdentity
    \/ CNPLookup
    \/ CNPDelete1
    \/ CNPDelete2
    \/ CNPCompare
    \/ CNPRestore1
    \/ CNPRestore2
    \/ ReaderReadSerialized
    \/ ReaderReadUnserialized

ReaderIdle ==
    readerPc = "idle" /\ readerObs = NoObservation

vars == <<eqVars, cnpVars, normVars, castVars, readerVars>>

InitEq == EqInit /\ CnpIdle /\ NormIdle /\ CastIdle /\ ReaderIdle

SpecEq == InitEq /\ [][EqNext]_vars

InitCNP == CnpInit /\ EqIdle /\ NormIdle /\ CastIdle /\ ReaderIdle

SpecCNP == InitCNP /\ [][CnpNext]_vars

InitNorm == NormInit /\ EqIdle /\ CnpIdle /\ CastIdle /\ ReaderIdle

SpecNorm == InitNorm /\ [][NormNext]_vars

InitCast == CastInit /\ EqIdle /\ CnpIdle /\ ReaderIdle

SpecCast == InitCast /\ [][CastNext]_vars

InitReader == CnpInit /\ ReaderInit /\ EqIdle /\ NormIdle /\ CastIdle

SpecReader == InitReader /\ [][ReaderNext]_vars

(***************************************************************************)
(* Shapes of a recorded call.                                              *)
(***************************************************************************)
Returned(c) == c.out.tag # "panic"

\* The event is a raw object of the converter's expected type.
DirectCall(c) == rawEvent.tag = "ptr" /\ DynType(rawEvent) = ExpectedType(c.fn)

\* The event is a tombstone whose payload is such a raw object.
TombstoneCall(c) ==
    /\ rawEvent.tag = "tombstone"
    /\ rawEvent.Obj.tag = "ptr"
    /\ DynType(rawEvent.Obj) = ExpectedType(c.fn)

\* The address of the raw object a direct or tombstone call normalizes.
SourceAddr == IF rawEvent.tag = "tombstone" THEN rawEvent.Obj.addr ELSE rawEvent.addr

\* The normalized object a direct or tombstone call returned.
Normalized(c) == IF c.out.tag = "tombstone" THEN c.out.Obj ELSE c.out

(***************************************************************************)
(* C1: for every converter, a tombstone (k, p) whose payload p is a raw    *)
(* object of the expected kind yields a tombstone with key k whose payload *)
(* is the normalized object the converter returns when applied directly to *)
(* p in the same pre-call state (the heap left behind is the same too; and *)
(* where the direct application panics, so does the tombstone one).        *)
(***************************************************************************)
C1_TombstonePropagation ==
    \A i \in 1..Len(calls) :
        LET c == calls[i]
            direct == Apply(c.fn, rawEvent.Obj, c.pre)
        IN  TombstoneCall(c) =>
                IF direct.out.tag = "panic"
                THEN c.out.tag = "panic"
                ELSE /\ c.out.tag = "tombstone"
                     /\ c.out.Key = rawEvent.Key
                     /\ c.out.Obj = direct.out
                     /\ c.post = direct.heap

C1_Witness ==
    /\ Len(calls) = 1
    /\ calls[1].fn = "ConvertToNode"
    /\ TombstoneCall(calls[1])
    /\ calls[1].out.tag = "tombstone"
    /\ calls[1].out.Key = EventKey
    /\ calls[1].out.Obj.tag = "slim"
    /\ calls[1].out.Obj.v.ObjectMeta.Name = "n1"

(***************************************************************************)
(* C2: for every converter, a tombstone whose payload is not of the        *)
(* expected kind (nil or another kind), and an input that is neither a raw *)
(* object of the expected kind nor a tombstone, is returned as given, and  *)
(* no object is modified.                                                  *)
(***************************************************************************)
Unrecognized(c) ==
    \/ rawEvent.tag = "tombstone" /\ DynType(rawEvent.Obj) # ExpectedType(c.fn)
    \/ rawEvent.tag # "tombstone" /\ DynType(rawEvent) # ExpectedType(c.fn)

C2_PassThrough ==
    \A i \in 1..Len(calls) :
        Unrecognized(calls[i]) =>
            /\ calls[i].out = rawEvent
            /\ calls[i].post = calls[i].pre

C2_Witness ==
    /\ Len(calls) = 1
    /\ calls[1].fn = "ConvertToNamespace"
    /\ rawEvent = Tombstone(EventKey, Ptr(TCiliumEndpoint, 1))
    /\ calls[1].out = rawEvent
    /\ heap[1] \in RawCiliumEndpoints

(***************************************************************************)
(* C5 (as stated): for every kind with a comparator, any two values        *)
(* obtained by applying the kind's converter to the same raw object        *)
(* compare equal, the clearing kinds included.                             *)
(***************************************************************************)
HasComparator(fn) == fn \notin {"ConvertToCiliumNode", "ConvertToCiliumEndpoint"}

ClearsSource(fn) ==
    fn \in {"ConvertToNode", "ConvertToNamespace", "ConvertToCiliumEndpoint",
            "ConvertToCNP", "ConvertToCCNP"}

C5_ReflexiveAcrossApplications ==
    \A i, j \in 1..Len(calls) :
        (DirectCall(calls[i]) /\ HasComparator(calls[i].fn)
            /\ Returned(calls[i]) /\ Returned(calls[j]))
        => EqualNormalized(calls[i].fn, calls[i].out, calls[j].out, heap)

\* C5 (amended): the value N returned by one application of a kind's
\* converter to a raw object satisfies Equal(N, N); the values of two
\* applications to the same raw object compare equal for the converters that
\* do not clear their source.
C5_Reflexive ==
    \A i, j \in 1..Len(calls) :
        (DirectCall(calls[i]) /\ HasComparator(calls[i].fn)
            /\ Returned(calls[i]) /\ Returned(calls[j])
            /\ (i = j \/ ~ClearsSource(calls[i].fn)))
        => EqualNormalized(calls[i].fn, calls[i].out, calls[j].out, heap)

\* A Node normalized twice: the second value is that of the cleared object.
C5_Witness ==
    /\ Len(calls) = 2
    /\ calls[1].fn = "ConvertToNode"
    /\ DirectCall(calls[1])
    /\ calls[1].out.v.ObjectMeta.Name = "n1"
    /\ calls[2].out.v.ObjectMeta.Name = ""
    /\ EqualNormalized("ConvertToNode", calls[1].out, calls[1].out, heap)
    /\ EqualNormalized("ConvertToNode", calls[2].out, calls[2].out, heap)

(***************************************************************************)
(* C6 (as stated): after a converter returns for a raw object (or a        *)
(* tombstone of one), the source raw object is at its zero value for Node, *)
(* Namespace, CiliumEndpoint and the single and cluster-wide               *)
(* NetworkPolicy-with-status normalizers, and is as it was before the call *)
(* for Service, Endpoints, EndpointSlice and CiliumNode.                   *)
(***************************************************************************)
SourceCleared(c) == c.post[SourceAddr] = ZeroValue(ExpectedType(c.fn))
SourceUntouched(c) == c.post[SourceAddr] = c.pre[SourceAddr]

C6_ClearTable ==
    \A i \in 1..Len(calls) :
        LET c == calls[i]
        IN  ((DirectCall(c) \/ TombstoneCall(c)) /\ Returned(c)) =>
                /\ c.fn \in {"ConvertToNode", "ConvertToNamespace", "ConvertToCiliumEndpoint",
                             "ConvertToCNPWithStatus", "ConvertToCCNPWithStatus",
                             "ConvertToCNP", "ConvertToCCNP"} => SourceCleared(c)
                /\ c.fn \in {"ConvertToK8sService", "ConvertToK8sEndpoints",
                             "ConvertToK8sEndpointSlice", "ConvertToCiliumNode"}
                        => SourceUntouched(c)

\* C6 (amended): the source is at its zero value for Node, Namespace,
\* CiliumEndpoint and the status-dropping policy normalizers ConvertToCNP and
\* ConvertToCCNP; it is as it was before the call for Service, Endpoints,
\* EndpointSlice, CiliumNode and the with-status policy normalizers
\* ConvertToCNPWithStatus and ConvertToCCNPWithStatus, the latter changing
\* only the status of the embedded policy, which becomes the cluster-wide
\* object's status.
C6_ClearTableAsCoded ==
    \A i \in 1..Len(calls) :
        LET c == calls[i]
        IN  ((DirectCall(c) \/ TombstoneCall(c)) /\ Returned(c)) =>
                /\ ClearsSource(c.fn) => SourceCleared(c)
                /\ c.fn \in {"ConvertToK8sService", "ConvertToK8sEndpoints",
                             "ConvertToK8sEndpointSlice", "ConvertToCiliumNode",
                             "ConvertToCNPWithStatus", "ConvertToCCNPWithStatus"}
                        => SourceUntouched(c)
                /\ c.fn = "ConvertToCCNPWithStatus" =>
                        LET e == c.pre[SourceAddr].CiliumNetworkPolicy
                        IN  c.post = [c.pre EXCEPT ![e].Status = c.pre[SourceAddr].Status]

\* A policy with status normalized by ConvertToCNPWithStatus is left as it was.
C6_Witness ==
    /\ Len(calls) = 1
    /\ calls[1].fn = "ConvertToCNPWithStatus"
    /\ DirectCall(calls[1])
    /\ heap[1] \in RawCNPs
    /\ heap[1] # ZeroValue(TCNP)
    /\ heap[1] = calls[1].pre[1]

(***************************************************************************)
(* C7: the slim CiliumEndpoint that ConvertToCiliumEndpoint yields carries *)
(* the identity metadata, encryption status, numeric identity, networking  *)
(* status and named ports the raw object held before the call, also once   *)
(* the raw object has been cleared.                                        *)
(***************************************************************************)
C7_EndpointFieldsKept ==
    \A i \in 1..Len(calls) :
        LET c == calls[i]
            raw == c.pre[SourceAddr]
            p == Normalized(c)
        IN  (c.fn = "ConvertToCiliumEndpoint" /\ (DirectCall(c) \/ TombstoneCall(c))
                /\ Returned(c)) =>
                /\ p.v.TypeMeta = raw.TypeMeta
                /\ p.v.ObjectMeta = raw.ObjectMeta
                /\ EncryptionOf(p, c.post) = raw.Status.Encryption
                /\ p.v.Identity = raw.Status.Identity
                /\ p.v.Networking = raw.Status.Networking
                /\ p.v.NamedPorts = raw.Status.NamedPorts

(***************************************************************************)
(* C3: when EqualV2CNP has returned, on every return path and whatever the *)
(* aliasing of its arguments, every annotation map holds exactly the       *)
(* key/value pairs it held when the call started.                          *)
(***************************************************************************)
C3_AnnotationsRestored ==
    cnpPc = "done" => (cnpMaps = cnpOrig)

\* Both inputs carried the annotation with different values, the comparison
\* ran past the deletes, and the call has returned.
C3_Witness ==
    /\ cnpPc = "done"
    /\ cnp2 = 2
    /\ cnpLocals.ok = <<TRUE, TRUE>>
    /\ cnpLocals.la[1] # cnpLocals.la[2]
    /\ cnpRet = TRUE

(***************************************************************************)
(* C4: EqualV2CNP returns true exactly when name and namespace are equal,  *)
(* Spec and Specs are structurally identical, and the annotation maps      *)
(* agree on every key other than the last-applied-configuration            *)
(* annotation, whatever that annotation's value or presence on either side.*)
(***************************************************************************)
OtherAnnotations(kv) == {p \in kv : p[1] # LastAppliedConfigAnnotation}

OrigAnnotations(p) ==
    IF cnpObjs[p].ObjectMeta.Annotations = 0 THEN {}
    ELSE cnpOrig[cnpObjs[p].ObjectMeta.Annotations]

C4_LastAppliedIgnored ==
    cnpPc = "done" =>
        (cnpRet =
            (/\ cnpObjs[cnp1].ObjectMeta.Name = cnpObjs[cnp2].ObjectMeta.Name
             /\ cnpObjs[cnp1].ObjectMeta.Namespace = cnpObjs[cnp2].ObjectMeta.Namespace
             /\ cnpObjs[cnp1].Spec = cnpObjs[cnp2].Spec
             /\ cnpObjs[cnp1].Specs = cnpObjs[cnp2].Specs
             /\ OtherAnnotations(OrigAnnotations(cnp1)) = OtherAnnotations(OrigAnnotations(cnp2))))

\* The annotation is present on one side only, all else agrees, and the
\* objects compare equal.
C4_Witness ==
    /\ cnpPc = "done"
    /\ cnp2 = 2
    /\ cnpLocals.ok = <<TRUE, FALSE>>
    /\ OtherAnnotations(OrigAnnotations(cnp1)) = {<<OtherAnnotation, "x">>}
    /\ cnpRet = TRUE

(***************************************************************************)
(* C8 (as stated): Services with equal derived identifier and service-info *)
(* compare equal whatever their other annotations.                         *)
(***************************************************************************)
SameParse(a, b) == ParseService(a, NodeAddressing) = ParseService(b, NodeAddressing)

C8_AnnotationInsensitive ==
    (eqPc = "done" /\ eqKind = "Service" /\ SameParse(eqA, eqB)) => eqRet = TRUE

\* C8 (amended): for Services with equal derived identifier and service-info,
\* EqualV1Services returns true exactly when the two annotation maps hold the
\* same key/value pairs; a difference in any annotation makes it return false.
C8_AllAnnotationsCompared ==
    (eqPc = "done" /\ eqKind = "Service" /\ SameParse(eqA, eqB))
        => (eqRet = (eqA.ObjectMeta.Annotations.kv = eqB.ObjectMeta.Annotations.kv))

C8_Witness ==
    /\ eqPc = "done" /\ eqKind = "Service" /\ SameParse(eqA, eqB)
    /\ eqA.ObjectMeta.Annotations = MkMap({<<OtherAnnotation, "x">>})
    /\ eqB.ObjectMeta.Annotations = NilMap
    /\ eqRet = FALSE

(***************************************************************************)
(* C9: EqualV1Node is true iff the names are equal, the four allow-listed  *)
(* annotations have the same value on both sides (a missing key counts as  *)
(* the empty string), and the taint lists have the same length and agree   *)
(* at every index on key, effect, value and added-timestamp; so two nodes  *)
(* whose taint lists are different orderings of the same taints are not    *)
(* equal.                                                                  *)
(***************************************************************************)
AnnotationOrEmpty(m, k) ==
    IF \E v \in {p[2] : p \in {q \in m.kv : q[1] = k}} : TRUE
    THEN CHOOSE v \in {p[2] : p \in {q \in m.kv : q[1] = k}} : TRUE
    ELSE ""

NodesEquivalent(a, b) ==
    /\ a.ObjectMeta.Name = b.ObjectMeta.Name
    /\ \A k \in {CiliumHostIP, CiliumHostIPv6, V4HealthName, V6HealthName} :
          AnnotationOrEmpty(a.ObjectMeta.Annotations, k)
              = AnnotationOrEmpty(b.ObjectMeta.Annotations, k)
    /\ a.SpecTaints.items = b.SpecTaints.items

IsPermutation(s, t) ==
    /\ Len(s) = Len(t)
    /\ \E f \in [1..Len(s) -> 1..Len(s)] :
          /\ \A i, j \in 1..Len(s) : i # j => f[i] # f[j]
          /\ \A i \in 1..Len(s) : s[i] = t[f[i]]

C9_NodeEquality ==
    (eqPc = "done" /\ eqKind = "Node") =>
        /\ eqRet = NodesEquivalent(eqA, eqB)
        /\ (IsPermutation(eqA.SpecTaints.items, eqB.SpecTaints.items)
              /\ eqA.SpecTaints.items # eqB.SpecTaints.items) => eqRet = FALSE

C9_Witness ==
    /\ eqPc = "done" /\ eqKind = "Node"
    /\ Len(eqA.SpecTaints.items) = 2
    /\ eqA.SpecTaints.items[1] # eqA.SpecTaints.items[2]
    /\ eqB.SpecTaints.items = <<eqA.SpecTaints.items[2], eqA.SpecTaints.items[1]>>
    /\ eqA.ObjectMeta = eqB.ObjectMeta
    /\ eqRet = FALSE

(***************************************************************************)
(* C10 (as stated): EqualV1Pod is true iff pod IP, pod-IP list, host IP,   *)
(* service-account name and host-network flag are equal, the               *)
(* proxy-visibility annotation matches, the labels are equal and the       *)
(* containers agree index by index on name, image and mount paths; the     *)
(* pod-IP lists being equal exactly when they hold the same entries in the *)
(* same order.                                                             *)
(***************************************************************************)
ContainersEquivalent(cs1, cs2) ==
    /\ Len(cs1) = Len(cs2)
    /\ \A i \in 1..Len(cs1) :
          /\ cs1[i].Name = cs2[i].Name
          /\ cs1[i].Image = cs2[i].Image
          /\ [j \in 1..Len(cs1[i].VolumeMounts.items) |-> cs1[i].VolumeMounts.items[j].MountPath]
               = [j \in 1..Len(cs2[i].VolumeMounts.items) |-> cs2[i].VolumeMounts.items[j].MountPath]

PodsEquivalentExceptIPs(a, b) ==
    /\ a.Status.PodIP = b.Status.PodIP
    /\ a.Status.HostIP = b.Status.HostIP
    /\ a.Spec.ServiceAccountName = b.Spec.ServiceAccountName
    /\ a.Spec.HostNetwork = b.Spec.HostNetwork
    /\ AnnotationOrEmpty(a.ObjectMeta.Annotations, ProxyVisibility)
         = AnnotationOrEmpty(b.ObjectMeta.Annotations, ProxyVisibility)
    /\ a.ObjectMeta.Labels.kv = b.ObjectMeta.Labels.kv
    /\ ContainersEquivalent(a.Spec.Containers.items, b.Spec.Containers.items)

C10_PodEquality_SameEntries ==
    (eqPc = "done" /\ eqKind = "Pod") =>
        (eqRet = (PodsEquivalentExceptIPs(eqA, eqB)
                    /\ eqA.Status.PodIPs.items = eqB.Status.PodIPs.items))

\* C10 (amended): as stated, except that the pod-IP lists count as equal
\* exactly when both are nil or both are non-nil and they hold the same
\* entries in the same order (a nil list and an empty list differ).
C10_PodEquality ==
    (eqPc = "done" /\ eqKind = "Pod") =>
        (eqRet = (PodsEquivalentExceptIPs(eqA, eqB)
                    /\ eqA.Status.PodIPs.nil = eqB.Status.PodIPs.nil
                    /\ eqA.Status.PodIPs.items = eqB.Status.PodIPs.items))

C10_Witness ==
    /\ eqPc = "done" /\ eqKind = "Pod"
    /\ PodsEquivalentExceptIPs(eqA, eqB)
    /\ eqA.Status.PodIPs = NilSlice
    /\ eqB.Status.PodIPs = MkSlice(<<>>)
    /\ eqRet = FALSE

(***************************************************************************)
(* C11: for the kinds compared on an allow-list of fields (Namespace, Pod, *)
(* Node, Endpoints, EndpointSlice), the result of the comparator does not  *)
(* change when its first operand is replaced by an object that agrees with *)
(* it on every relevant field and differs only outside them; and two       *)
(* objects that agree on every relevant field compare equal (namespaces    *)
(* that differ in annotations, pods that differ in a container environment *)
(* variable, endpoint slices that differ in address type).                 *)
(***************************************************************************)
AllowListKinds == {"Namespace", "Pod", "Node", "Endpoints", "EndpointSlice"}

MountPaths(c) == [j \in 1..Len(c.VolumeMounts.items) |-> c.VolumeMounts.items[j].MountPath]

RelevantFields(kind, o) ==
    CASE kind = "Namespace" -> <<o.ObjectMeta.Name, o.ObjectMeta.Labels>>
      [] kind = "Pod" ->
            << o.Status.PodIP, o.Status.PodIPs, o.Status.HostIP,
               o.Spec.ServiceAccountName, o.Spec.HostNetwork,
               AnnotationOrEmpty(o.ObjectMeta.Annotations, ProxyVisibility),
               o.ObjectMeta.Labels,
               [i \in 1..Len(o.Spec.Containers.items) |->
                   << o.Spec.Containers.items[i].Name, o.Spec.Containers.items[i].Image,
                      MountPaths(o.Spec.Containers.items[i]) >>] >>
      [] kind = "Node" ->
            << o.ObjectMeta.Name,
               [i \in 1..4 |-> AnnotationOrEmpty(o.ObjectMeta.Annotations,
                                                 annotationsWeCareAbout[i])],
               o.SpecTaints.items >>
      [] kind = "Endpoints" -> <<o.ObjectMeta.Name, o.ObjectMeta.Namespace, o.Subsets>>
      [] kind = "EndpointSlice" ->
            <<o.ObjectMeta.Name, o.ObjectMeta.Namespace, o.Endpoints, o.Ports>>

SamplesOfKind(kind) ==
    CASE kind = "Namespace" -> NamespaceSamples
      [] kind = "Pod" -> PodSamples
      [] kind = "Node" -> NodeSamples
      [] kind = "Endpoints" -> EndpointsSamples
      [] kind = "EndpointSlice" -> EndpointSliceSamples

EqualOfKind(kind, a, b) ==
    CASE kind = "Namespace" -> EqualV1Namespace(a, b)
      [] kind = "Pod" -> EqualV1Pod(a, b)
      [] kind = "Node" -> EqualV1Node(a, b)
      [] kind = "Endpoints" -> EqualV1Endpoints(a, b)
      [] kind = "EndpointSlice" -> EqualV1EndpointSlice(a, b)

C11_IrrelevantFieldInsensitive ==
    (eqPc = "done" /\ eqKind \in AllowListKinds) =>
        /\ \A a2 \in SamplesOfKind(eqKind) :
              RelevantFields(eqKind, a2) = RelevantFields(eqKind, eqA)
                  => EqualOfKind(eqKind, a2, eqB) = eqRet
        /\ RelevantFields(eqKind, eqA) = RelevantFields(eqKind, eqB) => eqRet = TRUE

C11_Witness ==
    /\ eqPc = "done" /\ eqKind = "EndpointSlice"
    /\ eqA.AddressType # eqB.AddressType
    /\ RelevantFields(eqKind, eqA) = RelevantFields(eqKind, eqB)
    /\ \E a2 \in EndpointSliceSamples :
          /\ a2 # eqA
          /\ RelevantFields(eqKind, a2) = RelevantFields(eqKind, eqA)
    /\ eqRet = TRUE

(***************************************************************************)
(* C12: every ObjTo* cast returns the very value it was given when that    *)
(* value is of the normalized kind the cast expects; given anything else   *)
(* (another kind, nil, a tombstone) it writes one warning to the log and   *)
(* returns nil, without raising an error and without modifying any object, *)
(* and further casts and converter calls remain possible (unless a         *)
(* converter called after the cast did not return).                        *)
(***************************************************************************)
CastTarget(fn) ==
    CASE fn = "ObjToV1NetworkPolicy" -> "*types.NetworkPolicy"
      [] fn = "ObjToV1Services" -> "*types.Service"
      [] fn = "ObjToV1Endpoints" -> "*types.Endpoints"
      [] fn = "ObjToV1EndpointSlice" -> "*types.EndpointSlice"
      [] fn = "ObjToSlimCNP" -> "*types.SlimCNP"
      [] fn = "ObjTov1Pod" -> "*slim_corev1.Pod"
      [] fn = "ObjToV1Node" -> "*types.Node"
      [] fn = "ObjToV1Namespace" -> "*types.Namespace"
      [] fn = "ObjToCiliumNode" -> "*cilium_v2.CiliumNode"
      [] fn = "ObjToCiliumEndpoint" -> "*types.CiliumEndpoint"

C13_NormalizeTotal ==
    \A i \in 1..Len(calls) : Returned(calls[i])

(***************************************************************************)
(* C14: a reader that is serialized with EqualV2CNP (it reads only before  *)
(* the call starts or after it has returned) observes the last-applied     *)
(* annotation exactly where the map held it before the call, so never      *)
(* missing from a map that holds it; a reader that is not serialized can   *)
(* observe it missing from such a map, and only while the call is between  *)
(* its first delete and its return; once the call has returned the         *)
(* annotation is present again.                                            *)
(***************************************************************************)
HadLastApplied(p) == \E q \in OrigAnnotations(p) : q[1] = LastAppliedConfigAnnotation

C14_TransientlyMissing ==
    readerObs.outcome # "" =>
        /\ readerPc = "serialized" =>
              readerObs.outcome = (IF HadLastApplied(readerObs.obj) THEN "present" ELSE "missing")
        /\ (readerPc = "unserialized" /\ HadLastApplied(readerObs.obj)
              /\ readerObs.outcome = "missing")
              => readerObs.at \in {"delete2", "compare", "restore1", "restore2"}
        /\ (cnpPc = "done" /\ HadLastApplied(readerObs.obj))
              => Observe(readerObs.obj) = "present"

\* An unserialized reader saw the annotation missing while the objects were
\* being compared; the call has returned and the annotation is back.
C14_Witness ==
    /\ readerPc = "unserialized"
    /\ readerObs.outcome = "missing"
    /\ readerObs.at = "compare"
    /\ HadLastApplied(readerObs.obj)
    /\ cnpPc = "done"
    /\ Observe(readerObs.obj) = "present"

====
